---- MODULE Spec2Model ----
(***************************************************************************)
(* A model of sloppylint: the scan orchestrator (sloppy/detector.py), the  *)
(* dead-code analyzer (sloppy/analyzers/dead_code.py), the cross-file      *)
(* duplicate detector (sloppy/analyzers/duplicates.py) and detectors of    *)
(* sloppy/patterns.                                                        *)
(*                                                                         *)
(* The specifications of the module:                                       *)
(*   Spec      Detector.scan over a small file system, run MaxScans times  *)
(*   SpecLines Detector.scan over files built from lines the line-based    *)
(*             detectors match                                             *)
(*   SpecDead  DeadCodeAnalyzer.analyze over one module's syntax tree      *)
(*   SpecDup   DuplicateDetector.add_file / find_duplicates                *)
(*   SpecPath  Detector._should_scan / _match_pattern on path texts        *)
(*   SpecNode  SingleMethodClass / WrongStdlibImport / UnreachableCode on  *)
(*             one tree node                                               *)
(*   SpecFingerprint  the digests of a function and of an edited copy      *)
(***************************************************************************)
EXTENDS Integers, Sequences, FiniteSets, TLC

\* ------------------------------------------------------------------------
\* Bounds of the model
\* ------------------------------------------------------------------------
MaxFiles == 2
MaxScans == 2
MaxStmts == 2
MaxDupFiles == 2
MaxAdds == 3

VARIABLES
    \* -- the file system and the Detector's constructor arguments
    fs,                      \* [AllFiles -> Content]: what each file holds
    dirOrder,                \* the order in which rglob("*.py") yields DIR's files
    cfg,                     \* min_severity, disabled_patterns, ignore/include
    paths,                   \* the argument of scan()
    \* -- Detector.scan
    pc,                      \* "idle" | "loop" | "raised"
    todo,                    \* the files the two nested loops have yet to visit
    issues,                  \* the local list `issues` of scan()
    results,                 \* the lists scan() has returned so far
    multiline_string_lines,  \* pattern.multiline_string_lines, kept across files
    analyzed,                \* the files _scan_file analysed to the end in this scan
    \* -- DeadCodeAnalyzer
    tree,                    \* the module handed to analyze(): its body
    dpc,                     \* "exports" | "visit" | "done"
    next_stmt,               \* the top-level statement visit() comes to next
    definitions,             \* self.definitions, in insertion order
    used_names,              \* self.used_names
    exported_names,          \* self.exported_names
    current_class,           \* self.current_class
    dead_issues,             \* what analyze() returned
    \* -- DuplicateDetector
    dfs,                     \* [DupFiles -> source]: the files handed to add_file
    blocks,                  \* self.blocks
    adds,                    \* the calls of add_file so far
    upc,                     \* "adding" | "found"
    dup_issues,              \* what find_duplicates() returned
    \* -- Detector._should_scan and Detector._match_pattern on texts
    probe,                   \* the path handed to _should_scan
    ignore_patterns,         \* self.ignore_patterns
    include_patterns,        \* self.include_patterns
    ppc,                     \* "ready" | "done"
    matched,                 \* the last call of _match_pattern and its result
    decided,                 \* what _should_scan returned
    \* -- one tree-based detector on one node
    subject,                 \* the node handed to check_node
    listing,                 \* the directory of the file and its parents
    npc,                     \* "ready" | the id of the detector that ran
    node_issues,             \* what check_node returned
    verdict,                 \* what is_likely_hallucinated_package returned
    \* -- the fingerprints of two functions
    sample,                  \* a function, an edit and the edited copy
    fingerprints             \* the digests of the two, once computed

scanVars ==
    <<fs, dirOrder, cfg, paths, pc, todo, issues, results,
      multiline_string_lines, analyzed>>

deadVars ==
    <<tree, dpc, next_stmt, definitions, used_names, exported_names,
      current_class, dead_issues>>

dupVars == <<dfs, blocks, adds, upc, dup_issues>>

pathVars == <<probe, ignore_patterns, include_patterns, ppc, matched, decided>>

nodeVars == <<subject, listing, npc, node_issues, verdict>>

normVars == <<sample, fingerprints>>

vars == <<scanVars, deadVars, dupVars, pathVars, nodeVars, normVars>>

\* ------------------------------------------------------------------------
\* Helpers over sequences
\* ------------------------------------------------------------------------
Range(s) == {s[i] : i \in DOMAIN s}

RECURSIVE Concat(_)
Concat(ss) == IF ss = <<>> THEN <<>> ELSE Head(ss) \o Concat(Tail(ss))

RECURSIVE SumSeq(_)
SumSeq(s) == IF s = <<>> THEN 0 ELSE Head(s) + SumSeq(Tail(s))

\* ------------------------------------------------------------------------
\* Severity
\* ------------------------------------------------------------------------
Severities == {"low", "medium", "high", "critical"}

SEVERITY_ORDER == [s \in Severities |->
    CASE s = "low" -> 0 [] s = "medium" -> 1 [] s = "high" -> 2 [] s = "critical" -> 3]

\* SEVERITY_ORDER.get(name, 0)
SeverityLevel(name) == IF name \in Severities THEN SEVERITY_ORDER[name] ELSE 0

\* ------------------------------------------------------------------------
\* Source text.  A source is a sequence of top-level statements; each
\* statement stands for the Python text given beside it.
\* ------------------------------------------------------------------------
PLAIN    == "x = 1"
MULTI    == "x = 1; y = 2"
STARTODO == "from m import *  # TODO: implement"
MUTDEF   == "def f(a=[]): return a"
UNUSED   == "def _unused(): return 1"
BAD      == "def ("
DOCTODO  == "s = ''' / # TODO: implement / '''"
FUNC6    == "def process_data(items): <6 lines>"
NUM      == "timeout = 3600"
PORT     == "port = 8080"
STRNUM   == "label = 'retry 3600'"
DEBUG    == "print(result)"
TERNARY  == "r = x if a else y if b else z"
DOCCODE  == "s = ''' / timeout = 3600 / print(result) / r = x if a else y if b else z / '''"

\* The physical lines of a statement.
StmtLines(stmt) ==
    CASE stmt = DOCTODO -> <<"s = '''", "# TODO: implement", "'''">>
      [] stmt = DOCCODE -> <<"s = '''", "timeout = 3600", "print(result)",
                             "r = x if a else y if b else z", "'''">>
      [] stmt = FUNC6   -> <<"def process_data(items):", "result = []",
                             "for item in items:", "if item > 0:",
                             "result.append(item * 2)", "return result">>
      [] OTHER          -> <<stmt>>

\* content.splitlines()
splitlines(src) == Concat([i \in DOMAIN src |-> StmtLines(src[i])])

\* node.lineno of the i-th top-level statement
StmtLine(src, i) == 1 + SumSeq([j \in 1..(i - 1) |-> Len(StmtLines(src[j]))])

\* ast.parse: SyntaxError when some statement does not parse
ParseOk(src) == \A i \in DOMAIN src : src[i] # BAD

\* get_multiline_string_lines(content): the lines inside a multi-line string
get_multiline_string_lines(src) ==
    UNION {{StmtLine(src, i) + k : k \in 0..(Len(StmtLines(src[i])) - 1)} :
           i \in {j \in DOMAIN src : src[j] \in {DOCTODO, DOCCODE}}}

\* ------------------------------------------------------------------------
\* The pattern registry and the detectors this model carries
\* ------------------------------------------------------------------------
get_all_patterns ==
    <<"todo_placeholder", "magic_number", "mutable_default_arg", "debug_print",
      "multiple_statements", "nested_ternary", "star_import">>

PatternSeverity(id) ==
    CASE id = "todo_placeholder"    -> "high"
      [] id = "mutable_default_arg" -> "critical"
      [] id = "multiple_statements" -> "low"
      [] id = "star_import"         -> "high"
      [] id = "magic_number"        -> "medium"
      [] id = "debug_print"         -> "medium"
      [] id = "nested_ternary"      -> "medium"
      [] id = "single_method_class" -> "high"
      [] id = "wrong_stdlib_import" -> "critical"
      [] id = "unreachable_code"    -> "medium"

\* hasattr(pattern, "check_line"): the RegexPattern subclasses
HasCheckLine(id) ==
    id \in {"todo_placeholder", "multiple_statements", "magic_number", "debug_print",
            "nested_ternary"}

Issue(id, file, line) ==
    [pattern_id |-> id, severity |-> PatternSeverity(id), file |-> file, line |-> line]

\* TodoPlaceholder.pattern / MultipleStatements.pattern searched in one line
RegexMatches(id, text) ==
    CASE id = "todo_placeholder" ->
            text \in {"from m import *  # TODO: implement", "# TODO: implement"}
      [] id = "multiple_statements" -> text = "x = 1; y = 2"
      [] id = "magic_number" ->
            text \in {"timeout = 3600", "port = 8080", "label = 'retry 3600'"}
      [] id = "debug_print" -> text = "print(result)"
      [] id = "nested_ternary" -> text = "r = x if a else y if b else z"
      [] OTHER -> FALSE

\* match.group() of MagicNumber.pattern in a line it matches
MatchGroup(text) == IF text = "port = 8080" THEN "8080" ELSE "3600"

\* is_in_string_or_comment(line, match.start()): it is given the one line and
\* the column, and tells whether the column is inside a string or a comment
\* of that line
is_in_string_or_comment(text, id) == text = "label = 'retry 3600'"

WELL_KNOWN_NUMBERS ==
    {"200", "201", "202", "204", "301", "302", "303", "304", "307", "308",
     "400", "401", "403", "404", "405", "409", "410", "422", "429",
     "500", "501", "502", "503", "504", "24", "60", "365", "366",
     "256", "512", "1024", "2048", "4096", "8192", "16384", "32768", "65536",
     "8080", "443", "80", "10", "50", "99", "128", "255"}

CLI_FILE_PATTERNS == {"cli.py", "__main__.py", "main.py", "console.py", "commands.py"}

\* file.name
FileName(file) == "m" \o ToString(file) \o ".py"

\* RegexPattern.check_line: a match on a line of the mask is suppressed
RegexPattern_check_line(id, text, lineno, file, mask) ==
    IF RegexMatches(id, text) /\ lineno \notin mask
    THEN <<Issue(id, file, lineno)>> ELSE <<>>

\* MagicNumber.check_line
MagicNumber_check_line(text, lineno, file) ==
    IF /\ RegexMatches("magic_number", text)
       /\ ~is_in_string_or_comment(text, "magic_number")
       /\ MatchGroup(text) \notin WELL_KNOWN_NUMBERS
    THEN <<Issue("magic_number", file, lineno)>> ELSE <<>>

\* DebugPrint.check_line
DebugPrint_check_line(text, lineno, file) ==
    IF FileName(file) \in CLI_FILE_PATTERNS THEN <<>>
    ELSE IF /\ RegexMatches("debug_print", text)
            /\ ~is_in_string_or_comment(text, "debug_print")
    THEN <<Issue("debug_print", file, lineno)>> ELSE <<>>

\* NestedTernary.check_line
NestedTernary_check_line(text, lineno, file) ==
    IF /\ RegexMatches("nested_ternary", text)
       /\ ~is_in_string_or_comment(text, "nested_ternary")
    THEN <<Issue("nested_ternary", file, lineno)>> ELSE <<>>

\* pattern.check_line(line, lineno, path): the method of the pattern's class
check_line(id, text, lineno, file, mask) ==
    CASE id = "magic_number"   -> MagicNumber_check_line(text, lineno, file)
      [] id = "debug_print"    -> DebugPrint_check_line(text, lineno, file)
      [] id = "nested_ternary" -> NestedTernary_check_line(text, lineno, file)
      [] OTHER -> RegexPattern_check_line(id, text, lineno, file, mask)

\* StarImport.check_node / MutableDefaultArg.check_node on one statement
check_node(id, stmt, lineno, file) ==
    IF \/ id = "star_import" /\ stmt = STARTODO
       \/ id = "mutable_default_arg" /\ stmt = MUTDEF
    THEN <<Issue(id, file, lineno)>> ELSE <<>>

\* self.patterns without the filter on disabled_patterns
Patterns_unfiltered(disabled) == get_all_patterns

\* self.patterns = [p for p in get_all_patterns() if p.id not in disabled]
Patterns(disabled) == SelectSeq(get_all_patterns, LAMBDA id : id \notin disabled)

\* ASTAnalyzer(path, content, patterns).analyze(tree): one pass over the tree,
\* every tree-based detector on every node
ASTAnalyze(file, src, patterns) ==
    Concat([i \in DOMAIN src |->
        Concat([p \in DOMAIN patterns |->
            IF HasCheckLine(patterns[p]) THEN <<>>
            ELSE check_node(patterns[p], src[i], StmtLine(src, i), file)])])

\* the line-based loop of _scan_file: per pattern, per line
LineChecks(file, src, patterns, mask) ==
    LET lines == splitlines(src) IN
    Concat([p \in DOMAIN patterns |->
        IF ~HasCheckLine(patterns[p]) THEN <<>>
        ELSE Concat([n \in DOMAIN lines |->
                check_line(patterns[p], lines[n], n, file, mask)])])

\* ------------------------------------------------------------------------
\* The file system
\* ------------------------------------------------------------------------
\* m1.py .. m<MaxFiles>.py live in the directory DIR; file k stands for the
\* path DIR/m<k>.py, so that Path ordering is the ordering of the numbers.
Files == 1..MaxFiles
NOTES == MaxFiles + 1        \* DIR/notes.txt: a file whose suffix is not .py
AllFiles == Files \cup {NOTES}

\* the Path arguments of scan(): the directory, or one file
DIR         == [is_dir |-> TRUE,  file |-> NOTES]
FilePath(f) == [is_dir |-> FALSE, file |-> f]

Readable(src) == [read |-> "ok", src |-> src]
Unreadable    == [read |-> "OSError", src |-> <<>>]
Undecodable   == [read |-> "UnicodeDecodeError", src |-> <<>>]

Contents ==
    { Readable(<<MULTI, MUTDEF>>),
      Readable(<<DOCTODO, STARTODO>>),
      Readable(<<UNUSED>>),
      Readable(<<FUNC6>>),
      Readable(<<BAD, STARTODO>>),
      Unreadable,
      Undecodable }

\* path.suffix
Suffix(f) == IF f = NOTES THEN ".txt" ELSE ".py"

\* A glob pattern is represented by the set of files whose root-relative
\* POSIX path it matches.
match_pattern(f, pattern) == f \in pattern

Filters ==
    { [ignore_patterns |-> <<>>,    include_patterns |-> <<>>],
      [ignore_patterns |-> <<{1}>>, include_patterns |-> <<{1}, {2}>>],
      [ignore_patterns |-> <<>>,    include_patterns |-> <<{2}>>] }

Disabled == { {}, {"todo_placeholder"} }

\* the sources and configurations of the line-based checks
LineTokens == {PLAIN, MULTI, STARTODO, DOCTODO, NUM, PORT, STRNUM, DEBUG, TERNARY, DOCCODE}

LineSources == {<<a>> : a \in LineTokens} \cup {<<a, b>> : a, b \in LineTokens}

LineDisabled ==
    { {}, {"todo_placeholder"}, {"magic_number", "no_such_pattern"},
      {"dead_code", "duplicate_code"} }

Configs ==
    { [min_severity |-> m, disabled_patterns |-> d,
       ignore_patterns |-> fl.ignore_patterns,
       include_patterns |-> fl.include_patterns] :
      m \in Severities, d \in Disabled, fl \in Filters }

\* the orders in which the file system may list DIR: it is one fixed order
\* for an unchanged directory, here ascending or descending by name
DirOrders == { [i \in 1..MaxFiles |-> i], [i \in 1..MaxFiles |-> MaxFiles + 1 - i] }

PathLists ==
    {<<DIR>>} \cup {<<FilePath(f)>> : f \in AllFiles}
              \cup {<<FilePath(f), DIR>> : f \in AllFiles}

\* ------------------------------------------------------------------------
\* Detector
\* ------------------------------------------------------------------------
\* Detector._should_scan
should_scan(f) ==
    IF Suffix(f) # ".py" THEN FALSE
    ELSE IF \E i \in DOMAIN cfg.ignore_patterns :
                match_pattern(f, cfg.ignore_patterns[i]) THEN FALSE
    ELSE IF /\ cfg.include_patterns # <<>>
            /\ ~\E i \in DOMAIN cfg.include_patterns :
                    match_pattern(f, cfg.include_patterns[i]) THEN FALSE
    ELSE TRUE

\* path.read_text(encoding="utf-8"): "ok", or the exception it raises
read_text(f) == fs[f].read

\* ast.parse(content): "ok", or the exception it raises
ast_parse(src) == IF ParseOk(src) THEN "ok" ELSE "SyntaxError"

\* what _scan_file hands back when it returns early or lets an exception out:
\* no issue, and the patterns keep the mask they had
EarlyExit(raised) ==
    [raised |-> raised, issues |-> <<>>, mask |-> multiline_string_lines,
     analyzed |-> FALSE]

\* scan_file with `except OSError` alone around read_text
scan_file_narrow_except(f) ==
    LET patterns == Patterns(cfg.disabled_patterns) IN
    IF read_text(f) # "ok"
    THEN EarlyExit(IF read_text(f) \in {"OSError"} THEN "none" ELSE read_text(f))
    ELSE IF ast_parse(fs[f].src) # "ok"
    THEN EarlyExit(IF ast_parse(fs[f].src) = "SyntaxError"
                   THEN "none" ELSE ast_parse(fs[f].src))
    ELSE LET mask == get_multiline_string_lines(fs[f].src) IN
         [raised   |-> "none",
          issues   |-> ASTAnalyze(f, fs[f].src, patterns)
                       \o LineChecks(f, fs[f].src, patterns, mask),
          mask     |-> mask,
          analyzed |-> TRUE,
          tree_mask |-> multiline_string_lines,
          line_mask |-> mask]

\* scan_file with the line-based checks run before the mask of this file is
\* set on the patterns
scan_file_stale_mask(f) ==
    LET patterns == Patterns(cfg.disabled_patterns) IN
    IF read_text(f) # "ok"
    THEN EarlyExit(IF read_text(f) \in {"OSError", "UnicodeDecodeError"}
                   THEN "none" ELSE read_text(f))
    ELSE IF ast_parse(fs[f].src) # "ok"
    THEN EarlyExit(IF ast_parse(fs[f].src) = "SyntaxError"
                   THEN "none" ELSE ast_parse(fs[f].src))
    ELSE [raised   |-> "none",
          issues   |-> ASTAnalyze(f, fs[f].src, patterns)
                       \o LineChecks(f, fs[f].src, patterns, multiline_string_lines),
          mask     |-> get_multiline_string_lines(fs[f].src),
          analyzed |-> TRUE,
          tree_mask |-> multiline_string_lines,
          line_mask |-> multiline_string_lines]

\* scan_file without the loop that sets the mask on the patterns
scan_file_mask_never_set(f) ==
    LET patterns == Patterns(cfg.disabled_patterns) IN
    IF read_text(f) # "ok"
    THEN EarlyExit(IF read_text(f) \in {"OSError", "UnicodeDecodeError"}
                   THEN "none" ELSE read_text(f))
    ELSE IF ast_parse(fs[f].src) # "ok"
    THEN EarlyExit(IF ast_parse(fs[f].src) = "SyntaxError"
                   THEN "none" ELSE ast_parse(fs[f].src))
    ELSE [raised   |-> "none",
          issues   |-> ASTAnalyze(f, fs[f].src, patterns)
                       \o LineChecks(f, fs[f].src, patterns, multiline_string_lines),
          mask     |-> multiline_string_lines,
          analyzed |-> TRUE,
          tree_mask |-> multiline_string_lines,
          line_mask |-> multiline_string_lines]

\* Detector._scan_file: what it returns or raises, and the mask it leaves on
\* the patterns.  `raised` is the exception that leaves _scan_file, if any.
\* tree_mask is the mask the patterns hold while ASTAnalyzer.analyze runs,
\* line_mask the one they hold while check_line runs.
scan_file(f) ==
    LET patterns == Patterns(cfg.disabled_patterns) IN
    IF read_text(f) # "ok"
    THEN EarlyExit(IF read_text(f) \in {"OSError", "UnicodeDecodeError"}
                   THEN "none" ELSE read_text(f))
    ELSE IF ast_parse(fs[f].src) # "ok"
    THEN EarlyExit(IF ast_parse(fs[f].src) = "SyntaxError"
                   THEN "none" ELSE ast_parse(fs[f].src))
    ELSE LET mask == get_multiline_string_lines(fs[f].src) IN
         [raised   |-> "none",
          issues   |-> ASTAnalyze(f, fs[f].src, patterns)
                       \o LineChecks(f, fs[f].src, patterns, mask),
          mask     |-> mask,
          analyzed |-> TRUE,
          tree_mask |-> multiline_string_lines,
          line_mask |-> mask]

\* the files the loops of scan() visit, in order
RECURSIVE Expand(_)
Expand(ps) ==
    IF ps = <<>> THEN <<>>
    ELSE (IF Head(ps).is_dir THEN dirOrder ELSE <<Head(ps).file>>) \o Expand(Tail(ps))

\* the sort key of scan(): (-severity, file, line)
KeyLess(a, b) ==
    LET sa == SeverityLevel(a.severity)
        sb == SeverityLevel(b.severity)
    IN  \/ sa > sb
        \/ sa = sb /\ a.file < b.file
        \/ sa = sb /\ a.file = b.file /\ a.line < b.line

\* list.sort(key=...): stable
RECURSIVE InsertSorted(_, _)
InsertSorted(x, s) ==
    IF s = <<>> THEN <<x>>
    ELSE IF KeyLess(x, Head(s)) THEN <<x>> \o s
    ELSE <<Head(s)>> \o InsertSorted(x, Tail(s))

\* the sort left out: the issues stay in the order the loops found them
SortIssues_unsorted(s) == s

RECURSIVE SortIssues(_)
SortIssues(s) ==
    IF s = <<>> THEN <<>>
    ELSE InsertSorted(s[Len(s)], SortIssues(SubSeq(s, 1, Len(s) - 1)))

\* the filter comparing the wrong way round
FilterSeverity_reversed(s) ==
    SelectSeq(s, LAMBDA i :
        SeverityLevel(i.severity) <= SeverityLevel(cfg.min_severity))

\* the severity filter of scan()
FilterSeverity(s) ==
    SelectSeq(s, LAMBDA i :
        SeverityLevel(i.severity) >= SeverityLevel(cfg.min_severity))

ScanIdle ==
    /\ fs = <<>>
    /\ dirOrder = <<>>
    /\ cfg = <<>>
    /\ paths = <<>>
    /\ pc = "off"
    /\ todo = <<>>
    /\ issues = <<>>
    /\ results = <<>>
    /\ multiline_string_lines = {}
    /\ analyzed = {}

ScanInit ==
    /\ fs \in [AllFiles -> Contents]
    /\ fs[NOTES] = Readable(<<MULTI, MUTDEF>>)
    /\ dirOrder \in DirOrders
    /\ cfg \in Configs
    /\ paths \in PathLists
    /\ pc = "idle"
    /\ todo = <<>>
    /\ issues = <<>>
    /\ results = <<>>
    /\ multiline_string_lines = {}
    /\ analyzed = {}

\* Detector(disabled_patterns=...) over a directory whose first file holds
\* any of the sources of the line-based checks
LinesInit ==
    /\ \E src \in LineSources :
          fs = [f \in AllFiles |-> IF f = 1 THEN Readable(src) ELSE Readable(<<PLAIN>>)]
    /\ dirOrder \in DirOrders
    /\ \E d \in LineDisabled :
          cfg = [min_severity |-> "low", disabled_patterns |-> d,
                 ignore_patterns |-> <<>>, include_patterns |-> <<>>]
    /\ paths \in PathLists
    /\ pc = "idle"
    /\ todo = <<>>
    /\ issues = <<>>
    /\ results = <<>>
    /\ multiline_string_lines = {}
    /\ analyzed = {}

\* scan(paths) is called
StartScan ==
    /\ pc = "idle"
    /\ Len(results) < MaxScans
    /\ pc' = "loop"
    /\ todo' = Expand(paths)
    /\ issues' = <<>>
    /\ analyzed' = {}
    /\ UNCHANGED <<fs, dirOrder, cfg, paths, results, multiline_string_lines>>
    /\ UNCHANGED <<deadVars, dupVars, pathVars, nodeVars, normVars>>

\* one turn of the loops: a file that _should_scan rejects
SkipFile ==
    /\ pc = "loop"
    /\ todo # <<>>
    /\ ~should_scan(Head(todo))
    /\ todo' = Tail(todo)
    /\ UNCHANGED <<fs, dirOrder, cfg, paths, pc, issues, results,
                   multiline_string_lines, analyzed>>
    /\ UNCHANGED <<deadVars, dupVars, pathVars, nodeVars, normVars>>

\* one turn of the loops: issues.extend(self._scan_file(path))
ScanFile ==
    /\ pc = "loop"
    /\ todo # <<>>
    /\ should_scan(Head(todo))
    /\ LET r == scan_file(Head(todo)) IN
         /\ pc' = IF r.raised = "none" THEN "loop" ELSE "raised"
         /\ issues' = issues \o r.issues
         /\ multiline_string_lines' = r.mask
         /\ analyzed' = IF r.analyzed THEN analyzed \cup {Head(todo)} ELSE analyzed
    /\ todo' = Tail(todo)
    /\ UNCHANGED <<fs, dirOrder, cfg, paths, results>>
    /\ UNCHANGED <<deadVars, dupVars, pathVars, nodeVars, normVars>>

\* the loops are over: filter, sort, return
Finish ==
    /\ pc = "loop"
    /\ todo = <<>>
    /\ results' = Append(results, SortIssues(FilterSeverity(issues)))
    /\ pc' = "idle"
    /\ UNCHANGED <<fs, dirOrder, cfg, paths, todo, issues,
                   multiline_string_lines, analyzed>>
    /\ UNCHANGED <<deadVars, dupVars, pathVars, nodeVars, normVars>>

\* ------------------------------------------------------------------------
\* Syntax trees for the dead-code analyzer
\* ------------------------------------------------------------------------
None == "None"

Name(id)               == [t |-> "Name", id |-> id]
Attribute(value, attr) == [t |-> "Attribute", value |-> value, attr |-> attr]
Call(func, args)       == [t |-> "Call", func |-> func, args |-> args, keywords |-> <<>>]
Pass                   == [t |-> "Pass"]
ExprStmt(value)        == [t |-> "Expr", value |-> value]
Constant(value)        == [t |-> "Constant", value |-> value, type |-> "str"]
List(elts)             == [t |-> "List", elts |-> elts]
Tuple(elts)            == [t |-> "Tuple", elts |-> elts]
Assign(targets, value) == [t |-> "Assign", targets |-> targets, value |-> value]
AugAssign(target, op, value) ==
    [t |-> "AugAssign", target |-> target, op |-> op, value |-> value]

NoExpr                 == [t |-> "NoExpr"]     \* a field that holds None
IntConstant(value)     == [t |-> "Constant", value |-> value, type |-> "int"]
Compare(left, ops, comparators) ==
    [t |-> "Compare", left |-> left, ops |-> ops, comparators |-> comparators]
BinOp(left, op, right) == [t |-> "BinOp", left |-> left, op |-> op, right |-> right]
Return(value)          == [t |-> "Return", value |-> value]
For(iter, body)        == [t |-> "For", iter |-> iter, body |-> body]
If(test, body)         == [t |-> "If", test |-> test, body |-> body]
Raise                  == [t |-> "Raise"]

\* one parameter of node.args.args, with its annotation and its default
Arg(arg, annotation, default) ==
    [arg |-> arg, annotation |-> annotation, default |-> default]

\* `keywords` of a ClassDef holds the values of its keywords
FunctionDef(name, decorator_list, args, returns, body) ==
    [t |-> "FunctionDef", name |-> name, decorator_list |-> decorator_list,
     args |-> args, returns |-> returns, body |-> body]
ClassDef(name, bases, keywords, decorator_list, body) ==
    [t |-> "ClassDef", name |-> name, bases |-> bases, keywords |-> keywords,
     decorator_list |-> decorator_list, body |-> body]

\* the lines a statement occupies: its own and those of its body
RECURSIVE Span(_)
Span(stmt) ==
    IF stmt.t \in {"FunctionDef", "ClassDef", "For", "If"}
    THEN 1 + SumSeq([i \in DOMAIN stmt.body |-> Span(stmt.body[i])])
    ELSE 1

\* the line of the i-th statement of a body whose first statement is at `first`
LineOf(body, i, first) == first + SumSeq([j \in 1..(i - 1) |-> Span(body[j])])

\* str.startswith / str.endswith over the identifiers of the model: the
\* prefixes and suffixes, among those the analyzer asks about, of each name
external_use_patterns ==
    {"test_", "Test", "setUp", "tearDown", "setUpClass", "tearDownClass",
     "setup", "teardown", "setup_method", "teardown_method", "pytest_",
     "conftest", "get_queryset", "get_context_data", "form_valid",
     "before_request", "after_request", "main", "cli", "app"}

PrefixesOf(name) ==
    CASE name \in {"_helper", "_Calc"} -> {"_"}
      [] name = "test_data" -> {"test_"}
      [] name \in {"__init__", "__getattr__", "__repr__", "__eq__"} -> {"_", "__"}
      [] OTHER -> {}

SuffixesOf(name) ==
    CASE name \in {"__init__", "__getattr__", "__repr__", "__eq__"} -> {"_", "__"}
      [] OTHER -> {}

startswith(name, prefix) == prefix \in PrefixesOf(name)
endswith(name, suffix)   == suffix \in SuffixesOf(name)

\* DeadCodeAnalyzer._matches_external_pattern
matches_external_pattern(name) ==
    \E pattern \in external_use_patterns :
        startswith(name, pattern) \/ endswith(name, pattern)

external_decorators ==
    {"pytest.fixture", "fixture", "pytest.mark", "mark", "app.route", "route",
     "get", "post", "put", "delete", "celery.task", "task", "property",
     "staticmethod", "classmethod", "abstractmethod", "abstractproperty",
     "overload", "lru_cache", "cache", "cached_property", "dataclass",
     "click.command", "command"}

\* the parts of a chain of attributes, root first: the loop of
\* _get_decorator_name and reversed(parts)
RECURSIVE DottedParts(_)
DottedParts(e) ==
    CASE e.t = "Attribute" -> DottedParts(e.value) \o <<e.attr>>
      [] e.t = "Name"      -> <<e.id>>
      [] OTHER             -> <<>>

\* ".".join(parts)
RECURSIVE JoinDots(_)
JoinDots(parts) ==
    IF parts = <<>> THEN ""
    ELSE IF Len(parts) = 1 THEN parts[1]
    ELSE parts[1] \o "." \o JoinDots(Tail(parts))

\* DeadCodeAnalyzer._get_decorator_name
RECURSIVE get_decorator_name(_)
get_decorator_name(dec) ==
    CASE dec.t = "Name"      -> dec.id
      [] dec.t = "Attribute" -> JoinDots(DottedParts(dec))
      [] dec.t = "Call"      -> get_decorator_name(dec.func)
      [] OTHER -> None

\* `pattern in dec_name` over the decorator names of the model: the members
\* of external_decorators that are substrings of each name
SubstringsOf(dec_name) ==
    CASE dec_name = "lru_cache" -> {"lru_cache", "cache"}
      [] dec_name = "app.route" -> {"app.route", "route"}
      [] dec_name = "dataclass" -> {"dataclass"}
      [] OTHER -> {}

\* _has_external_decorator that knows bare names only
has_external_decorator_bare_names(decorators) ==
    \E i \in DOMAIN decorators :
        /\ decorators[i].t = "Name"
        /\ SubstringsOf(decorators[i].id) \cap external_decorators # {}

\* DeadCodeAnalyzer._has_external_decorator
has_external_decorator(decorators) ==
    \E i \in DOMAIN decorators :
        /\ get_decorator_name(decorators[i]) # None
        /\ SubstringsOf(get_decorator_name(decorators[i])) \cap external_decorators # {}

\* ------------------------------------------------------------------------
\* DeadCodeAnalyzer: the visitor.  A visitor state is the record
\* [definitions, used_names, current_class]; definitions is the dict, as
\* the sequence of its items in insertion order.
\* ------------------------------------------------------------------------
DefinitionInfo(key, name, kind, line, parent_class) ==
    [key |-> key, name |-> name, kind |-> kind, line |-> line,
     is_private |-> startswith(name, "_") /\ ~startswith(name, "__"),
     is_dunder |-> startswith(name, "__") /\ endswith(name, "__"),
     parent_class |-> parent_class]

\* self.definitions[key] = info
SetItem(defs, info) ==
    IF \E i \in DOMAIN defs : defs[i].key = info.key
    THEN [i \in DOMAIN defs |-> IF defs[i].key = info.key THEN info ELSE defs[i]]
    ELSE Append(defs, info)

\* The keys of self.definitions.  A bare name is the tuple of that name; the
\* qualified f"{self.current_class}.{node.name}" is the pair of its parts.
Bare(name)             == <<name>>
Qualified(class, name) == <<class, name>>

\* `key in self.used_names`: used_names holds identifiers, and a qualified
\* key, which has a dot in it, equals none
KeyIn(key, used) == Len(key) = 1 /\ key[1] \in used

\* the Name at the root of a chain of attributes, if there is one
RECURSIVE RootNames(_)
RootNames(e) ==
    CASE e.t = "Attribute" -> RootNames(e.value)
      [] e.t = "Name"      -> {e.id}
      [] OTHER             -> {}

\* visit_Name, visit_Attribute, visit_Call and generic_visit on expressions:
\* the names the visit of `e` adds to used_names
RECURSIVE VisitExpr(_)
VisitExpr(e) ==
    CASE e.t = "Name" -> {e.id}
      [] e.t = "Attribute" -> {e.attr} \cup RootNames(e) \cup VisitExpr(e.value)
      [] e.t = "Call" ->
            (CASE e.func.t = "Name"      -> {e.func.id}
               [] e.func.t = "Attribute" -> {e.func.attr}
               [] OTHER                  -> {})
            \cup VisitExpr(e.func)
            \cup UNION {VisitExpr(e.args[i]) : i \in DOMAIN e.args}
      [] e.t \in {"List", "Tuple"} ->
            UNION {VisitExpr(e.elts[i]) : i \in DOMAIN e.elts}
      [] e.t = "BinOp" -> VisitExpr(e.left) \cup VisitExpr(e.right)
      [] e.t = "Compare" ->
            VisitExpr(e.left)
            \cup UNION {VisitExpr(e.comparators[i]) : i \in DOMAIN e.comparators}
      [] OTHER -> {}

VisitExprs(es) == UNION {VisitExpr(es[i]) : i \in DOMAIN es}

RECURSIVE VisitStmt(_, _, _)
RECURSIVE VisitBody(_, _, _, _)

\* self.visit(stmt) for each statement of a body, in order
VisitBody(body, i, first, st) ==
    IF i > Len(body) THEN st
    ELSE VisitBody(body, i + 1, first,
                   VisitStmt(body[i], LineOf(body, i, first), st))

\* _visit_function without the test `if not is_dunder`
visit_function_tracks_dunder(node, line, st) ==
    LET marked ==
            IF has_external_decorator(node.decorator_list)
            THEN [st EXCEPT !.used_names = @ \cup {node.name}]
            ELSE LET info == DefinitionInfo(
                        IF st.current_class # None
                        THEN Qualified(st.current_class, node.name)
                        ELSE Bare(node.name),
                        node.name,
                        IF st.current_class # None THEN "method" ELSE "function",
                        line, st.current_class)
                 IN  [st EXCEPT !.definitions = SetItem(@, info)]
        decorated ==
            [marked EXCEPT !.used_names = @ \cup VisitExprs(node.decorator_list)]
    IN  VisitBody(node.body, 1, line + 1, decorated)

\* DeadCodeAnalyzer._visit_function
visit_function(node, line, st) ==
    LET marked ==
            IF has_external_decorator(node.decorator_list)
            THEN [st EXCEPT !.used_names = @ \cup {node.name}]
            ELSE LET info == DefinitionInfo(
                        IF st.current_class # None
                        THEN Qualified(st.current_class, node.name)
                        ELSE Bare(node.name),
                        node.name,
                        IF st.current_class # None THEN "method" ELSE "function",
                        line, st.current_class)
                 IN  IF info.is_dunder THEN st
                     ELSE [st EXCEPT !.definitions = SetItem(@, info)]
        decorated ==
            [marked EXCEPT !.used_names = @ \cup VisitExprs(node.decorator_list)]
    IN  VisitBody(node.body, 1, line + 1, decorated)

\* DeadCodeAnalyzer.visit_ClassDef
visit_ClassDef(node, line, st) ==
    LET marked ==
            IF has_external_decorator(node.decorator_list)
            THEN [st EXCEPT !.used_names = @ \cup {node.name}]
            ELSE [st EXCEPT !.definitions =
                    SetItem(@, [DefinitionInfo(Bare(node.name), node.name, "class",
                                               line, None)
                                EXCEPT !.is_dunder = FALSE])]
        based ==
            [marked EXCEPT !.used_names =
                @ \cup VisitExprs(node.bases) \cup VisitExprs(node.decorator_list)]
        inside == VisitBody(node.body, 1, line + 1,
                            [based EXCEPT !.current_class = node.name])
    IN  [inside EXCEPT !.current_class = st.current_class]

\* NodeVisitor.visit on a statement
VisitStmt(stmt, line, st) ==
    CASE stmt.t = "FunctionDef" -> visit_function(stmt, line, st)
      [] stmt.t = "ClassDef"    -> visit_ClassDef(stmt, line, st)
      [] stmt.t = "Expr"        ->
            [st EXCEPT !.used_names = @ \cup VisitExpr(stmt.value)]
      [] stmt.t = "Assign"      ->
            [st EXCEPT !.used_names =
                @ \cup VisitExprs(stmt.targets) \cup VisitExpr(stmt.value)]
      [] stmt.t = "AugAssign"   ->
            [st EXCEPT !.used_names =
                @ \cup VisitExpr(stmt.target) \cup VisitExpr(stmt.value)]
      [] stmt.t = "Return"      ->
            [st EXCEPT !.used_names = @ \cup VisitExpr(stmt.value)]
      [] stmt.t = "For"         ->
            VisitBody(stmt.body, 1, line + 1,
                      [st EXCEPT !.used_names = @ \cup VisitExpr(stmt.iter)])
      [] stmt.t = "If"          ->
            VisitBody(stmt.body, 1, line + 1,
                      [st EXCEPT !.used_names = @ \cup VisitExpr(stmt.test)])
      [] OTHER -> st

\* ast.walk(tree), as far as statements go
RECURSIVE WalkStmts(_)
WalkStmts(body) ==
    Concat([i \in DOMAIN body |->
        <<body[i]>> \o (IF body[i].t \in {"FunctionDef", "ClassDef", "For", "If"}
                        THEN WalkStmts(body[i].body) ELSE <<>>)])

\* the string constants among the elements of a list or tuple
StringElts(value) ==
    IF value.t \in {"List", "Tuple"}
    THEN {value.elts[i].value :
            i \in {j \in DOMAIN value.elts :
                    value.elts[j].t = "Constant" /\ value.elts[j].type = "str"}}
    ELSE {}

\* _extract_exports that looks at the plain assignments at module level only
extract_exports_module_level(body) ==
    UNION {
        IF /\ body[k].t = "Assign"
           /\ \E i \in DOMAIN body[k].targets : body[k].targets[i] = Name("__all__")
        THEN StringElts(body[k].value) ELSE {}
        : k \in DOMAIN body }

\* DeadCodeAnalyzer._extract_exports
extract_exports(body) ==
    UNION {
        CASE stmt.t = "Assign" ->
                IF \E i \in DOMAIN stmt.targets : stmt.targets[i] = Name("__all__")
                THEN StringElts(stmt.value) ELSE {}
          [] stmt.t = "AugAssign" ->
                IF stmt.target = Name("__all__") THEN StringElts(stmt.value) ELSE {}
          [] OTHER -> {}
        : stmt \in Range(WalkStmts(body)) }

\* the report loop of analyze(): is this definition reported?
Reported(info, used, exported) ==
    /\ ~info.is_dunder
    /\ ~KeyIn(info.key, used)
    /\ info.name \notin exported
    /\ ~matches_external_pattern(info.name)
    /\ ~(info.kind = "method" /\ info.parent_class # None
            /\ info.parent_class \in used)

DeadIssue(info) ==
    [pattern_id |-> "dead_code", severity |-> "medium", line |-> info.line,
     kind |-> info.kind, name |-> info.name, parent_class |-> info.parent_class]

\* ------------------------------------------------------------------------
\* DeadCodeAnalyzer.analyze as a state machine (specification SpecDead)
\* ------------------------------------------------------------------------
RefNames == {"_helper", "_Calc", "sub"}

RefExprs ==
    UNION {{Name(r), Attribute(Name("obj"), r), Call(Name(r), <<>>),
            Call(Attribute(Name("obj"), r), <<>>)} : r \in RefNames}

\* the top-level statements a module is made of
DeadStmts ==
    {ExprStmt(e) : e \in RefExprs}
    \cup {FunctionDef("_helper", d, <<>>, NoExpr, <<Pass>>) :
            d \in {<<>>, <<Name("lru_cache")>>}}
    \cup {FunctionDef("api", <<>>, <<Arg("x", NoExpr, Name("_helper"))>>, NoExpr, <<Pass>>),
          FunctionDef("api", <<>>, <<Arg("c", Name("_Calc"), NoExpr)>>, NoExpr, <<Pass>>),
          FunctionDef("api", <<>>, <<>>, NoExpr, <<ExprStmt(Call(Name("_helper"), <<>>))>>)}
    \cup {ClassDef("_Calc", <<>>, <<>>, <<>>, b) :
            b \in {<<Pass>>, <<FunctionDef("sub", <<>>, <<>>, NoExpr, <<Pass>>)>>}}
    \cup {ClassDef("Child", <<Name("_Calc")>>, <<>>, <<>>, <<Pass>>),
          ClassDef("Child", <<>>, <<Name("_Calc")>>, <<>>, <<Pass>>)}
    \cup {Assign(<<Name("__all__")>>, List(<<Constant("_helper")>>))}
    \cup {FunctionDef("__getattr__", <<>>, <<>>, NoExpr, <<Pass>>),
          ClassDef("_Calc", <<>>, <<>>, <<>>,
                   <<FunctionDef("__init__", <<>>, <<>>, NoExpr, <<Pass>>)>>),
          If(Name("extended"),
             <<AugAssign(Name("__all__"), "Add", Tuple(<<Constant("_Calc")>>))>>),
          FunctionDef("_helper", <<Call(Attribute(Name("app"), "route"), <<>>)>>,
                      <<>>, NoExpr, <<Pass>>),
          FunctionDef("_helper", <<Name("timer")>>, <<>>, NoExpr, <<Pass>>),
          ClassDef("_Calc", <<>>, <<>>, <<Name("dataclass")>>,
                   <<FunctionDef("sub", <<>>, <<>>, NoExpr, <<Pass>>)>>)}

Modules == UNION {[1..n -> DeadStmts] : n \in 0..MaxStmts}

DeadIdle ==
    /\ tree = <<>>
    /\ dpc = "off"
    /\ next_stmt = 1
    /\ definitions = <<>>
    /\ used_names = {}
    /\ exported_names = {}
    /\ current_class = None
    /\ dead_issues = <<>>

\* DeadCodeAnalyzer(file, source), about to analyze(tree)
DeadInit ==
    /\ tree \in Modules
    /\ dpc = "exports"
    /\ next_stmt = 1
    /\ definitions = <<>>
    /\ used_names = {}
    /\ exported_names = {}
    /\ current_class = None
    /\ dead_issues = <<>>

\* first pass: self._extract_exports(tree)
ExtractExports ==
    /\ dpc = "exports"
    /\ exported_names' = extract_exports(tree)
    /\ dpc' = "visit"
    /\ UNCHANGED <<tree, next_stmt, definitions, used_names, current_class,
                   dead_issues>>
    /\ UNCHANGED <<scanVars, dupVars, pathVars, nodeVars, normVars>>

\* second pass: self.visit(tree) comes to the next statement of the module
VisitNext ==
    /\ dpc = "visit"
    /\ next_stmt <= Len(tree)
    /\ LET st == VisitStmt(tree[next_stmt], LineOf(tree, next_stmt, 1),
                           [definitions |-> definitions,
                            used_names |-> used_names,
                            current_class |-> current_class])
       IN  /\ definitions' = st.definitions
           /\ used_names' = st.used_names
           /\ current_class' = st.current_class
    /\ next_stmt' = next_stmt + 1
    /\ UNCHANGED <<tree, dpc, exported_names, dead_issues>>
    /\ UNCHANGED <<scanVars, dupVars, pathVars, nodeVars, normVars>>

\* the loop over self.definitions.items(), and the return
Report ==
    /\ dpc = "visit"
    /\ next_stmt > Len(tree)
    /\ dead_issues' =
         LET kept == SelectSeq(definitions,
                        LAMBDA info : Reported(info, used_names, exported_names))
         IN  [i \in DOMAIN kept |-> DeadIssue(kept[i])]
    /\ dpc' = "done"
    /\ UNCHANGED <<tree, next_stmt, definitions, used_names, exported_names,
                   current_class>>
    /\ UNCHANGED <<scanVars, dupVars, pathVars, nodeVars, normVars>>

\* ------------------------------------------------------------------------
\* DuplicateDetector
\* ------------------------------------------------------------------------
MIN_LINES == 5

\* ast.walk(tree), breadth first, over the statements, each with its line
Children(entry) ==
    IF entry.node.t \in {"FunctionDef", "ClassDef", "For", "If"}
    THEN [i \in DOMAIN entry.node.body |->
            [node |-> entry.node.body[i],
             line |-> LineOf(entry.node.body, i, entry.line + 1)]]
    ELSE <<>>

RECURSIVE WalkLevel(_)
WalkLevel(level) ==
    IF level = <<>> THEN <<>>
    ELSE level \o WalkLevel(Concat([i \in DOMAIN level |-> Children(level[i])]))

ast_walk(body) ==
    WalkLevel([i \in DOMAIN body |-> [node |-> body[i], line |-> LineOf(body, i, 1)]])

\* DuplicateDetector._get_call_name
get_call_name(call) ==
    CASE call.func.t = "Name"      -> call.func.id
      [] call.func.t = "Attribute" -> call.func.attr
      [] OTHER                     -> "unknown"

\* _get_expr_signature that keeps the identifier of a name
get_expr_signature_with_ids(expr) ==
    CASE expr.t = "NoExpr"    -> <<"none">>
      [] expr.t = "Call"      -> <<"call", get_call_name(expr), Len(expr.args) + Len(expr.keywords)>>
      [] expr.t = "BinOp"     -> <<"binop", expr.op>>
      [] expr.t = "Compare"   -> <<"compare", expr.ops>>
      [] expr.t = "Constant"  -> <<"const", expr.type>>
      [] expr.t = "List"      -> <<"list", Len(expr.elts)>>
      [] expr.t = "Tuple"     -> <<"tuple", Len(expr.elts)>>
      [] expr.t = "Name"      -> <<"name", expr.id>>
      [] expr.t = "Attribute" -> <<"attr", expr.attr>>
      [] OTHER                -> <<"other", expr.t>>

\* DuplicateDetector._get_expr_signature; the text f"call:{name}:{n}" is the
\* tuple of its parts
get_expr_signature(expr) ==
    CASE expr.t = "NoExpr"    -> <<"none">>
      [] expr.t = "Call"      -> <<"call", get_call_name(expr), Len(expr.args) + Len(expr.keywords)>>
      [] expr.t = "BinOp"     -> <<"binop", expr.op>>
      [] expr.t = "Compare"   -> <<"compare", expr.ops>>
      [] expr.t = "Constant"  -> <<"const", expr.type>>
      [] expr.t = "List"      -> <<"list", Len(expr.elts)>>
      [] expr.t = "Tuple"     -> <<"tuple", Len(expr.elts)>>
      [] expr.t = "Name"      -> <<"name">>
      [] expr.t = "Attribute" -> <<"attr", expr.attr>>
      [] OTHER                -> <<"other", expr.t>>

\* DuplicateDetector._get_annotation_repr
get_annotation_repr(annotation) ==
    CASE annotation.t = "Name"      -> annotation.id
      [] annotation.t = "Constant"  -> annotation.value
      [] annotation.t = "Attribute" -> annotation.attr
      [] OTHER                      -> "unknown"

\* DuplicateDetector._normalize_stmt: the lines of the text it returns
RECURSIVE normalize_stmt(_, _)
normalize_stmt(stmt, depth) ==
    CASE stmt.t = "Return" ->
            << <<"stmt", depth, "return", get_expr_signature(stmt.value)>> >>
      [] stmt.t = "If" ->
            << <<"stmt", depth, "if", get_expr_signature(stmt.test)>> >>
            \o Concat([i \in DOMAIN stmt.body |-> normalize_stmt(stmt.body[i], depth + 1)])
      [] stmt.t = "For" ->
            << <<"stmt", depth, "for", get_expr_signature(stmt.iter)>> >>
            \o Concat([i \in DOMAIN stmt.body |-> normalize_stmt(stmt.body[i], depth + 1)])
      [] stmt.t = "Assign" ->
            << <<"stmt", depth, "assign", Len(stmt.targets),
                 get_expr_signature(stmt.value)>> >>
      [] stmt.t = "AugAssign" ->
            << <<"stmt", depth, "augassign", stmt.op,
                 get_expr_signature(stmt.value)>> >>
      [] stmt.t = "Expr" ->
            << <<"stmt", depth, "expr", get_expr_signature(stmt.value)>> >>
      [] stmt.t = "Pass" -> << <<"stmt", depth, "pass">> >>
      [] OTHER -> << <<"stmt", depth, "other", stmt.t>> >>

\* DuplicateDetector._normalize_function
normalize_function(node) ==
    << <<"args", Len(node.args),
         [i \in DOMAIN node.args |->
            IF node.args[i].annotation # NoExpr
            THEN get_annotation_repr(node.args[i].annotation) ELSE "any"]>> >>
    \o (IF node.returns # NoExpr
        THEN << <<"returns", get_annotation_repr(node.returns)>> >> ELSE <<>>)
    \o Concat([i \in DOMAIN node.body |-> normalize_stmt(node.body[i], 0)])

\* DuplicateDetector._normalize_class
normalize_class(node) ==
    << <<"bases", Len(node.bases)>> >>
    \o Concat([i \in DOMAIN node.body |->
            IF node.body[i].t = "FunctionDef"
            THEN << <<"method", normalize_function(node.body[i])>> >>
            ELSE normalize_stmt(node.body[i], 0)])

\* hashlib.md5(text).hexdigest(): a digest that tells any two texts apart
md5(text) == <<"md5", text>>

CodeBlock(name, kind, file, line, normalized, line_count) ==
    [name |-> name, kind |-> kind, file |-> file, line |-> line,
     code_hash |-> md5(normalized), line_count |-> line_count,
     normalized_code |-> normalized]

\* DuplicateDetector._get_end_line(node) - node.lineno + 1
line_count_of(node) == Span(node)

\* _extract_function_block without the test on MIN_LINES
extract_function_block_any_size(entry, file) ==
    IF startswith(entry.node.name, "test_") THEN <<>>
    ELSE <<CodeBlock(entry.node.name, "function", file, entry.line,
                     normalize_function(entry.node), line_count_of(entry.node))>>

\* DuplicateDetector._extract_function_block: the block, or none
extract_function_block(entry, file) ==
    IF line_count_of(entry.node) < MIN_LINES THEN <<>>
    ELSE IF startswith(entry.node.name, "test_") THEN <<>>
    ELSE <<CodeBlock(entry.node.name, "function", file, entry.line,
                     normalize_function(entry.node), line_count_of(entry.node))>>

\* DuplicateDetector._extract_class_block: the block, or none
extract_class_block(entry, file) ==
    IF line_count_of(entry.node) < MIN_LINES THEN <<>>
    ELSE IF startswith(entry.node.name, "Test") THEN <<>>
    ELSE <<CodeBlock(entry.node.name, "class", file, entry.line,
                     normalize_class(entry.node), line_count_of(entry.node))>>

\* DuplicateDetector.add_file: the blocks it appends to self.blocks
add_file(file, source) ==
    IF ~source.syntax_ok THEN <<>>
    ELSE LET walk == ast_walk(source.body) IN
         Concat([i \in DOMAIN walk |->
            CASE walk[i].node.t = "FunctionDef" -> extract_function_block(walk[i], file)
              [] walk[i].node.t = "ClassDef"    -> extract_class_block(walk[i], file)
              [] OTHER                          -> <<>>])

\* the keys of by_hash, in the order the dict got them
RECURSIVE HashOrder(_, _)
HashOrder(bs, seen) ==
    IF bs = <<>> THEN <<>>
    ELSE IF Head(bs).code_hash \in seen THEN HashOrder(Tail(bs), seen)
    ELSE <<Head(bs).code_hash>> \o HashOrder(Tail(bs), seen \cup {Head(bs).code_hash})

\* for i, block1 in enumerate(blocks): for block2 in blocks[i + 1:]
PairsOf(group) ==
    Concat([i \in DOMAIN group |->
        [k \in 1..(Len(group) - i) |-> <<group[i], group[i + k]>>]])

\* f"{block.file}:{block.line}"
Location(block) == <<block.file, block.line>>

\* tuple(sorted([location1, location2]))
PairKey(block1, block2) == {Location(block1), Location(block2)}

\* the issue reported for the first block of the pair instead of the second
DuplicateIssue_for_first(block1, block2) ==
    [pattern_id |-> "duplicate_code", severity |-> "medium",
     file |-> block1.file, line |-> block1.line,
     name |-> block1.name, kind |-> block1.kind, line_count |-> block1.line_count,
     same_as |-> [name |-> block2.name, file |-> block2.file, line |-> block2.line]]

DuplicateIssue(block1, block2) ==
    [pattern_id |-> "duplicate_code", severity |-> "medium",
     file |-> block2.file, line |-> block2.line,
     name |-> block2.name, kind |-> block2.kind, line_count |-> block2.line_count,
     same_as |-> [name |-> block1.name, file |-> block1.file, line |-> block1.line]]

\* report_pairs with the test `block1.file == block2.file` left out
RECURSIVE report_pairs_same_file_too(_, _)
report_pairs_same_file_too(pairs, seen_pairs) ==
    IF pairs = <<>> THEN <<>>
    ELSE LET block1 == Head(pairs)[1]
             block2 == Head(pairs)[2]
         IN  IF PairKey(block1, block2) \in seen_pairs
             THEN report_pairs_same_file_too(Tail(pairs), seen_pairs)
             ELSE <<DuplicateIssue(block1, block2)>>
                  \o report_pairs_same_file_too(Tail(pairs),
                        seen_pairs \cup {PairKey(block1, block2)})

\* report_pairs with the test on seen_pairs left out
RECURSIVE report_pairs_no_seen(_, _)
report_pairs_no_seen(pairs, seen_pairs) ==
    IF pairs = <<>> THEN <<>>
    ELSE LET block1 == Head(pairs)[1]
             block2 == Head(pairs)[2]
         IN  IF block1.file = block2.file
             THEN report_pairs_no_seen(Tail(pairs), seen_pairs)
             ELSE <<DuplicateIssue(block1, block2)>>
                  \o report_pairs_no_seen(Tail(pairs), seen_pairs)

\* the two nested loops of find_duplicates over the pairs of all groups
RECURSIVE report_pairs(_, _)
report_pairs(pairs, seen_pairs) ==
    IF pairs = <<>> THEN <<>>
    ELSE LET block1 == Head(pairs)[1]
             block2 == Head(pairs)[2]
         IN  IF block1.file = block2.file
             THEN report_pairs(Tail(pairs), seen_pairs)
             ELSE IF PairKey(block1, block2) \in seen_pairs
             THEN report_pairs(Tail(pairs), seen_pairs)
             ELSE <<DuplicateIssue(block1, block2)>>
                  \o report_pairs(Tail(pairs), seen_pairs \cup {PairKey(block1, block2)})

\* DuplicateDetector.find_duplicates
find_duplicates(bs) ==
    LET hashes == HashOrder(bs, {})
        group(h) == SelectSeq(bs, LAMBDA b : b.code_hash = h)
    IN  report_pairs(
            Concat([i \in DOMAIN hashes |->
                IF Len(group(hashes[i])) < 2 THEN <<>> ELSE PairsOf(group(hashes[i]))]),
            {})

\* the sources of the model
Source(body) == [syntax_ok |-> TRUE, body |-> body]
SyntaxErrorSource == [syntax_ok |-> FALSE, body |-> <<>>]

\* result = []; for item in items: if item > n: result.method(item * n);
\* return result
ProcessBody(result, item, items, n, method) ==
    << Assign(<<Name(result)>>, List(<<>>)),
       For(Name(items),
           << If(Compare(Name(item), <<"Gt">>, <<IntConstant(n)>>),
                 << ExprStmt(Call(Attribute(Name(result), method),
                                  <<BinOp(Name(item), "Mult", IntConstant(n))>>)) >>) >>),
       Return(Name(result)) >>

\* result = []; result.append(n); return result
ShortBody(result, n) ==
    << Assign(<<Name(result)>>, List(<<>>)),
       ExprStmt(Call(Attribute(Name(result), "append"), <<IntConstant(n)>>)),
       Return(Name(result)) >>

Def(name, arg, body) == FunctionDef(name, <<>>, <<Arg(arg, NoExpr, NoExpr)>>, NoExpr, body)

process_data == Def("process_data", "items", ProcessBody("result", "item", "items", 2, "append"))
transform    == Def("transform", "values", ProcessBody("out", "v", "values", 3, "append"))
collect      == Def("collect", "items", ProcessBody("result", "item", "items", 2, "extend"))
test_data    == Def("test_data", "items", ProcessBody("result", "item", "items", 2, "append"))
small        == Def("small", "self", ShortBody("result", 2))

DupSources ==
    { Source(<<process_data>>),
      Source(<<transform>>),
      Source(<<process_data, transform>>),
      Source(<<collect>>),
      Source(<<small>>),
      Source(<<test_data>>),
      Source(<<ClassDef("Holder", <<>>, <<>>, <<>>, <<small>>)>>),
      SyntaxErrorSource }

DupFiles == 1..MaxDupFiles

DupIdle ==
    /\ dfs = <<>>
    /\ blocks = <<>>
    /\ adds = 0
    /\ upc = "off"
    /\ dup_issues = <<>>

\* DuplicateDetector()
DupInit ==
    /\ dfs \in [DupFiles -> DupSources]
    /\ blocks = <<>>
    /\ adds = 0
    /\ upc = "adding"
    /\ dup_issues = <<>>

\* detector.add_file(file, source)
AddFile ==
    /\ upc = "adding"
    /\ adds < MaxAdds
    /\ \E f \in DupFiles : blocks' = blocks \o add_file(f, dfs[f])
    /\ adds' = adds + 1
    /\ UNCHANGED <<dfs, upc, dup_issues>>
    /\ UNCHANGED <<scanVars, deadVars, pathVars, nodeVars, normVars>>

\* detector.find_duplicates()
FindDuplicates ==
    /\ upc = "adding"
    /\ dup_issues' = find_duplicates(blocks)
    /\ upc' = "found"
    /\ UNCHANGED <<dfs, blocks, adds>>
    /\ UNCHANGED <<scanVars, deadVars, pathVars, nodeVars, normVars>>

\* ------------------------------------------------------------------------
\* The fingerprint of a function and of an edited copy of it (specification
\* SpecFingerprint)
\* ------------------------------------------------------------------------
\* out = callback(1); return out
apply_callback ==
    Def("apply_callback", "callback",
        << Assign(<<Name("out")>>, Call(Name("callback"), <<IntConstant(1)>>)),
           Return(Name("out")) >>)

\* raw = decode(fetch(key)); return raw + suffix("-")
load_wrapped ==
    Def("load_wrapped", "key",
        << Assign(<<Name("raw")>>, Call(Name("decode"), <<Call(Name("fetch"), <<Name("key")>>)>>)),
           Return(BinOp(Name("raw"), "Add", Call(Name("suffix"), <<Constant("-")>>))) >>)

\* if n > 0: return countdown(n - 1)  /  return 0
countdown ==
    Def("countdown", "n",
        << If(Compare(Name("n"), <<"Gt">>, <<IntConstant(0)>>),
              << Return(Call(Name("countdown"),
                             <<BinOp(Name("n"), "Sub", IntConstant(1))>>)) >>),
           Return(IntConstant(0)) >>)

\* for entry in rows: if check(entry): seen.add(entry)  /  total += 1
tally ==
    Def("tally", "rows",
        << For(Name("rows"),
               << If(Call(Name("check"), <<Name("entry")>>),
                     << ExprStmt(Call(Attribute(Name("seen"), "add"), <<Name("entry")>>)) >>) >>),
           AugAssign(Name("total"), "Add", IntConstant(1)) >>)

NormFunctions == {process_data, collect, apply_callback, load_wrapped, countdown, tally}

FreshNames == {"renamed", "other", "alt"}

\* an identifier replaced by another wherever it occurs in an expression
RECURSIVE RenameExpr(_, _, _)
RenameExpr(e, old, new) ==
    CASE e.t = "Name" -> IF e.id = old THEN Name(new) ELSE e
      [] e.t = "Attribute" -> Attribute(RenameExpr(e.value, old, new), e.attr)
      [] e.t = "Call" ->
            [e EXCEPT !.func = RenameExpr(e.func, old, new),
                      !.args = [i \in DOMAIN e.args |-> RenameExpr(e.args[i], old, new)]]
      [] e.t = "BinOp" ->
            BinOp(RenameExpr(e.left, old, new), e.op, RenameExpr(e.right, old, new))
      [] e.t = "Compare" ->
            Compare(RenameExpr(e.left, old, new), e.ops,
                    [i \in DOMAIN e.comparators |-> RenameExpr(e.comparators[i], old, new)])
      [] e.t \in {"List", "Tuple"} ->
            [e EXCEPT !.elts = [i \in DOMAIN e.elts |-> RenameExpr(e.elts[i], old, new)]]
      [] OTHER -> e

RECURSIVE RenameStmt(_, _, _)
RenameStmt(stmt, old, new) ==
    CASE stmt.t = "Assign" ->
            Assign([i \in DOMAIN stmt.targets |-> RenameExpr(stmt.targets[i], old, new)],
                   RenameExpr(stmt.value, old, new))
      [] stmt.t = "AugAssign" ->
            AugAssign(RenameExpr(stmt.target, old, new), stmt.op,
                      RenameExpr(stmt.value, old, new))
      [] stmt.t = "Expr" -> ExprStmt(RenameExpr(stmt.value, old, new))
      [] stmt.t = "Return" -> Return(RenameExpr(stmt.value, old, new))
      [] stmt.t = "For" ->
            For(RenameExpr(stmt.iter, old, new),
                [i \in DOMAIN stmt.body |-> RenameStmt(stmt.body[i], old, new)])
      [] stmt.t = "If" ->
            If(RenameExpr(stmt.test, old, new),
               [i \in DOMAIN stmt.body |-> RenameStmt(stmt.body[i], old, new)])
      [] OTHER -> stmt

\* the function, its parameters and its body with one identifier renamed
RenameFunction(fn, old, new) ==
    [fn EXCEPT
        !.name = IF fn.name = old THEN new ELSE fn.name,
        !.args = [i \in DOMAIN fn.args |->
                    [fn.args[i] EXCEPT !.arg = IF fn.args[i].arg = old THEN new
                                               ELSE fn.args[i].arg]],
        !.body = [i \in DOMAIN fn.body |-> RenameStmt(fn.body[i], old, new)]]

\* every literal replaced by another literal of its type
RECURSIVE ReplaceLiteralsExpr(_)
ReplaceLiteralsExpr(e) ==
    CASE e.t = "Constant" ->
            IF e.type = "int" THEN IntConstant(e.value + 7) ELSE Constant("other text")
      [] e.t = "Attribute" -> Attribute(ReplaceLiteralsExpr(e.value), e.attr)
      [] e.t = "Call" ->
            [e EXCEPT !.func = ReplaceLiteralsExpr(e.func),
                      !.args = [i \in DOMAIN e.args |-> ReplaceLiteralsExpr(e.args[i])]]
      [] e.t = "BinOp" ->
            BinOp(ReplaceLiteralsExpr(e.left), e.op, ReplaceLiteralsExpr(e.right))
      [] e.t = "Compare" ->
            Compare(ReplaceLiteralsExpr(e.left), e.ops,
                    [i \in DOMAIN e.comparators |-> ReplaceLiteralsExpr(e.comparators[i])])
      [] e.t \in {"List", "Tuple"} ->
            [e EXCEPT !.elts = [i \in DOMAIN e.elts |-> ReplaceLiteralsExpr(e.elts[i])]]
      [] OTHER -> e

RECURSIVE ReplaceLiteralsStmt(_)
ReplaceLiteralsStmt(stmt) ==
    CASE stmt.t = "Assign" -> Assign(stmt.targets, ReplaceLiteralsExpr(stmt.value))
      [] stmt.t = "AugAssign" ->
            AugAssign(stmt.target, stmt.op, ReplaceLiteralsExpr(stmt.value))
      [] stmt.t = "Expr" -> ExprStmt(ReplaceLiteralsExpr(stmt.value))
      [] stmt.t = "Return" -> Return(ReplaceLiteralsExpr(stmt.value))
      [] stmt.t = "For" ->
            For(ReplaceLiteralsExpr(stmt.iter),
                [i \in DOMAIN stmt.body |-> ReplaceLiteralsStmt(stmt.body[i])])
      [] stmt.t = "If" ->
            If(ReplaceLiteralsExpr(stmt.test),
               [i \in DOMAIN stmt.body |-> ReplaceLiteralsStmt(stmt.body[i])])
      [] OTHER -> stmt

\* the name of the function of every call of that name replaced by another
RECURSIVE RenameCalleeExpr(_, _, _)
RenameCalleeExpr(e, old, new) ==
    CASE e.t = "Call" ->
            [e EXCEPT
                !.func = IF get_call_name(e) # old THEN RenameCalleeExpr(e.func, old, new)
                         ELSE IF e.func.t = "Name" THEN Name(new)
                         ELSE Attribute(RenameCalleeExpr(e.func.value, old, new), new),
                !.args = [i \in DOMAIN e.args |-> RenameCalleeExpr(e.args[i], old, new)]]
      [] e.t = "Attribute" -> Attribute(RenameCalleeExpr(e.value, old, new), e.attr)
      [] e.t = "BinOp" ->
            BinOp(RenameCalleeExpr(e.left, old, new), e.op, RenameCalleeExpr(e.right, old, new))
      [] e.t = "Compare" ->
            Compare(RenameCalleeExpr(e.left, old, new), e.ops,
                    [i \in DOMAIN e.comparators |->
                        RenameCalleeExpr(e.comparators[i], old, new)])
      [] e.t \in {"List", "Tuple"} ->
            [e EXCEPT !.elts = [i \in DOMAIN e.elts |-> RenameCalleeExpr(e.elts[i], old, new)]]
      [] OTHER -> e

RECURSIVE RenameCalleeStmt(_, _, _)
RenameCalleeStmt(stmt, old, new) ==
    CASE stmt.t = "Assign" -> Assign(stmt.targets, RenameCalleeExpr(stmt.value, old, new))
      [] stmt.t = "AugAssign" ->
            AugAssign(stmt.target, stmt.op, RenameCalleeExpr(stmt.value, old, new))
      [] stmt.t = "Expr" -> ExprStmt(RenameCalleeExpr(stmt.value, old, new))
      [] stmt.t = "Return" -> Return(RenameCalleeExpr(stmt.value, old, new))
      [] stmt.t = "For" ->
            For(RenameCalleeExpr(stmt.iter, old, new),
                [i \in DOMAIN stmt.body |-> RenameCalleeStmt(stmt.body[i], old, new)])
      [] stmt.t = "If" ->
            If(RenameCalleeExpr(stmt.test, old, new),
               [i \in DOMAIN stmt.body |-> RenameCalleeStmt(stmt.body[i], old, new)])
      [] OTHER -> stmt

\* the sub-expressions of an expression, itself included
RECURSIVE SubExprs(_)
SubExprs(e) ==
    {e} \cup
    CASE e.t = "Attribute" -> SubExprs(e.value)
      [] e.t = "Call" ->
            SubExprs(e.func) \cup UNION {SubExprs(e.args[i]) : i \in DOMAIN e.args}
      [] e.t = "BinOp" -> SubExprs(e.left) \cup SubExprs(e.right)
      [] e.t = "Compare" ->
            SubExprs(e.left)
            \cup UNION {SubExprs(e.comparators[i]) : i \in DOMAIN e.comparators}
      [] e.t \in {"List", "Tuple"} -> UNION {SubExprs(e.elts[i]) : i \in DOMAIN e.elts}
      [] OTHER -> {}

\* the expressions of a statement and of the statements nested in it
RECURSIVE StmtExprs(_)
StmtExprs(stmt) ==
    CASE stmt.t = "Assign" -> Range(stmt.targets) \cup {stmt.value}
      [] stmt.t = "AugAssign" -> {stmt.target, stmt.value}
      [] stmt.t \in {"Expr", "Return"} -> {stmt.value}
      [] stmt.t = "For" ->
            {stmt.iter} \cup UNION {StmtExprs(stmt.body[i]) : i \in DOMAIN stmt.body}
      [] stmt.t = "If" ->
            {stmt.test} \cup UNION {StmtExprs(stmt.body[i]) : i \in DOMAIN stmt.body}
      [] OTHER -> {}

AllExprs(fn) ==
    UNION {SubExprs(e) : e \in UNION {StmtExprs(fn.body[i]) : i \in DOMAIN fn.body}}

\* the names of the functions a body calls, at any depth of an expression
CalleeNames(fn) == {get_call_name(e) : e \in {x \in AllExprs(fn) : x.t = "Call"}}

\* the function's own name, its parameters and the variables it assigns
OwnNames(fn) ==
    {fn.name} \cup {fn.args[i].arg : i \in DOMAIN fn.args}
    \cup UNION {CASE stmt.t = "Assign" ->
                        {t.id : t \in {x \in Range(stmt.targets) : x.t = "Name"}}
                  [] stmt.t = "AugAssign" ->
                        IF stmt.target.t = "Name" THEN {stmt.target.id} ELSE {}
                  [] OTHER -> {}
                : stmt \in Range(WalkStmts(fn.body))}

Edits(fn) ==
    {[kind |-> "rename", old |-> o, new |-> n] : o \in OwnNames(fn), n \in FreshNames}
    \cup {[kind |-> "literal", old |-> "", new |-> ""]}
    \cup {[kind |-> "callee", old |-> c, new |-> n] : c \in CalleeNames(fn), n \in FreshNames}

ApplyEdit(fn, edit) ==
    CASE edit.kind = "rename" -> RenameFunction(fn, edit.old, edit.new)
      [] edit.kind = "literal" ->
            [fn EXCEPT !.body = [i \in DOMAIN fn.body |-> ReplaceLiteralsStmt(fn.body[i])]]
      [] edit.kind = "callee" ->
            [fn EXCEPT !.body = [i \in DOMAIN fn.body |->
                                    RenameCalleeStmt(fn.body[i], edit.old, edit.new)]]

FingerprintIdle ==
    /\ sample = <<>>
    /\ fingerprints = <<>>

\* a function and a copy of it that differs by one edit
FingerprintInit ==
    /\ sample \in {[original |-> fn, edit |-> e, variant |-> ApplyEdit(fn, e)] :
                    fn \in NormFunctions, e \in UNION {Edits(g) : g \in NormFunctions}}
    /\ sample.edit \in Edits(sample.original)
    /\ fingerprints = <<>>

\* hashlib.md5(self._normalize_function(node).encode()).hexdigest() for both
Fingerprint ==
    /\ sample # <<>>
    /\ fingerprints = <<>>
    /\ fingerprints' = <<md5(normalize_function(sample.original)),
                         md5(normalize_function(sample.variant))>>
    /\ UNCHANGED sample
    /\ UNCHANGED <<scanVars, deadVars, dupVars, pathVars, nodeVars>>

SameFingerprint == fingerprints[1] = fingerprints[2]

C25_CalleeNameChangesFingerprint ==
    /\ fingerprints # <<>>
    /\ sample.edit.kind = "callee"
    => ~SameFingerprint

\* ------------------------------------------------------------------------
\* Paths and glob patterns as text (specification SpecPath).  A text is the
\* sequence of its characters.
\* ------------------------------------------------------------------------
\* self.root_path.resolve(): /r
RootPath == <<"/", "r">>

TopFile      == <<"/", "r", "/", "a", ".", "p", "y">>    \* /r/a.py
PkgFile      == <<"/", "r", "/", "p", "/", "a", ".", "p", "y">>    \* /r/p/a.py
DeepFile     == <<"/", "r", "/", "p", "/", "q", "/", "a", ".", "p", "y">>    \* /r/p/q/a.py
TextFile     == <<"/", "r", "/", "p", "/", "a", ".", "t", "x", "t">>    \* /r/p/a.txt
LongName     == <<"/", "r", "/", "p", "/", "a", "b", ".", "p", "y">>    \* /r/p/ab.py
OutsideFile  == <<"/", "o", "/", "a", ".", "p", "y">>    \* /o/a.py

SrcFlat      == <<"/", "r", "/", "s", "r", "c", "/", "c", ".", "p", "y">>    \* /r/src/c.py
SrcDeep      == <<"/", "r", "/", "s", "r", "c", "/", "a", "/", "b", "/", "c", ".", "p", "y">>    \* /r/src/a/b/c.py
VenvFile     == <<"/", "r", "/", ".", "v", "e", "n", "v", "/", "l", "i", "b", "/", "a", ".", "p", "y">>    \* /r/.venv/lib/a.py
PlainVenvFile== <<"/", "r", "/", "v", "e", "n", "v", "/", "a", ".", "p", "y">>    \* /r/venv/a.py
BuildFile    == <<"/", "r", "/", "p", "/", "b", "u", "i", "l", "d", "/", "a", ".", "p", "y">>    \* /r/p/build/a.py
DistFile     == <<"/", "r", "/", "d", "i", "s", "t", "/", "a", ".", "p", "y">>    \* /r/dist/a.py
CacheFile    == <<"/", "r", "/", "p", "/", "_", "_", "p", "y", "c", "a", "c", "h", "e", "_", "_", "/", "a", ".", "p", "y">>    \* /r/p/__pycache__/a.py
GitFile      == <<"/", "r", "/", ".", "g", "i", "t", "/", "a", ".", "p", "y">>    \* /r/.git/a.py
ModulesFile  == <<"/", "r", "/", "n", "o", "d", "e", "_", "m", "o", "d", "u", "l", "e", "s", "/", "a", ".", "p", "y">>    \* /r/node_modules/a.py

ScanPaths ==
    {TopFile, PkgFile, DeepFile, TextFile, LongName, OutsideFile,
     SrcFlat, SrcDeep, VenvFile, PlainVenvFile, BuildFile, DistFile, CacheFile,
     GitFile, ModulesFile}

AnyPy          == <<"*", ".", "p", "y">>    \* *.py
PkgAny         == <<"p", "/", "*">>    \* p/*
PkgPy          == <<"p", "/", "*", ".", "p", "y">>    \* p/*.py
RecPy          == <<"*", "*", "/", "*", ".", "p", "y">>    \* **/*.py
PkgRec         == <<"p", "/", "*", "*">>    \* p/**
OneCharPy      == <<"?", ".", "p", "y">>    \* ?.py
PkgOneCharPy   == <<"p", "/", "?", ".", "p", "y">>    \* p/?.py
RecOneChar     == <<"*", "*", "/", "?", ".", "p", "y">>    \* **/?.py
Exact          == <<"a", ".", "p", "y">>    \* a.py
BackslashPy    == <<"p", "\\", "*", ".", "p", "y">>    \* p\*.py
PkgOneSegment  == <<"p", "?", "a", ".", "p", "y">>    \* p?a.py
SrcRecPy       == <<"s", "r", "c", "/", "*", "*", "/", "*", ".", "p", "y">>    \* src/**/*.py

GlobPatterns ==
    {AnyPy, PkgAny, PkgPy, RecPy, PkgRec,
     OneCharPy, PkgOneCharPy, RecOneChar, Exact, BackslashPy,
     PkgOneSegment, SrcRecPy}

\* config.get_default_ignores()
get_default_ignores ==
    << <<"_", "_", "p", "y", "c", "a", "c", "h", "e", "_", "_">>,    \* __pycache__
       <<"*", ".", "p", "y", "c">>,    \* *.pyc
       <<".", "g", "i", "t">>,    \* .git
       <<".", "v", "e", "n", "v">>,    \* .venv
       <<"v", "e", "n", "v">>,    \* venv
       <<"n", "o", "d", "e", "_", "m", "o", "d", "u", "l", "e", "s">>,    \* node_modules
       <<".", "t", "o", "x">>,    \* .tox
       <<".", "n", "o", "x">>,    \* .nox
       <<".", "e", "g", "g", "s">>,    \* .eggs
       <<"*", ".", "e", "g", "g", "-", "i", "n", "f", "o">>,    \* *.egg-info
       <<"d", "i", "s", "t">>,    \* dist
       <<"b", "u", "i", "l", "d">>,    \* build
       <<".", "m", "y", "p", "y", "_", "c", "a", "c", "h", "e">>,    \* .mypy_cache
       <<".", "p", "y", "t", "e", "s", "t", "_", "c", "a", "c", "h", "e">>,    \* .pytest_cache
       <<".", "r", "u", "f", "f", "_", "c", "a", "c", "h", "e">> >>    \* .ruff_cache

\* cli: ignore_patterns = get_default_ignores() + config.ignore
cli_ignore_patterns(config_ignore) == get_default_ignores \o config_ignore

\* the ignore_patterns and include_patterns a Detector is built with
PatternLists ==
    {<<>>} \cup {<<g>> : g \in GlobPatterns}
           \cup {<<PkgPy, RecOneChar>>, <<Exact, PkgRec>>}
           \cup {cli_ignore_patterns(<<>>), cli_ignore_patterns(<<PkgPy>>)}

\* str.startswith on texts
StartsWith(text, prefix) ==
    /\ Len(prefix) <= Len(text)
    /\ SubSeq(text, 1, Len(prefix)) = prefix

\* the last path component
NameOf(text) ==
    LET slashes == {i \in DOMAIN text : text[i] = "/"}
    IN  IF slashes = {} THEN text
        ELSE SubSeq(text, (CHOOSE i \in slashes : \A j \in slashes : j <= i) + 1,
                    Len(text))

\* path.suffix: the last component from its last dot on
PathSuffix(text) ==
    LET name == NameOf(text)
        dots == {i \in DOMAIN name : name[i] = "." /\ i > 1 /\ i < Len(name)}
    IN  IF dots = {} THEN <<>>
        ELSE SubSeq(name, CHOOSE i \in dots : \A j \in dots : j <= i, Len(name))

\* Detector._get_relative_posix_path: relative to the root where the path is
\* under the root, the absolute path otherwise
get_relative_posix_path(path) ==
    IF StartsWith(path, RootPath \o <<"/">>)
    THEN SubSeq(path, Len(RootPath) + 2, Len(path))
    ELSE path

\* pattern.replace("\\", "/")
NormalizePattern(pattern) ==
    [i \in DOMAIN pattern |-> IF pattern[i] = "\\" THEN "/" ELSE pattern[i]]

\* "**" in pattern
HasDoubleStar(pattern) ==
    \E i \in 1..(Len(pattern) - 1) : pattern[i] = "*" /\ pattern[i + 1] = "*"

Tok(kind, char) == [kind |-> kind, char |-> char]

\* the regular expression the `**` branch builds: re.escape, then "**" to
\* ".*", then "*" to "[^/]*", then "?" to "[^/]"
RECURSIVE RegexTokens(_)
RegexTokens(pattern) ==
    IF pattern = <<>> THEN <<>>
    ELSE IF Len(pattern) >= 2 /\ pattern[1] = "*" /\ pattern[2] = "*"
    THEN <<Tok("any", "")>> \o RegexTokens(SubSeq(pattern, 3, Len(pattern)))
    ELSE IF pattern[1] = "*"
    THEN <<Tok("segment", "")>> \o RegexTokens(Tail(pattern))
    ELSE IF pattern[1] = "?"
    THEN <<Tok("segment_char", "")>> \o RegexTokens(Tail(pattern))
    ELSE <<Tok("literal", pattern[1])>> \o RegexTokens(Tail(pattern))

\* fnmatch.translate: "*" to ".*", "?" to ".", under re.DOTALL
RECURSIVE FnmatchTokens(_)
FnmatchTokens(pattern) ==
    IF pattern = <<>> THEN <<>>
    ELSE IF pattern[1] = "*"
    THEN <<Tok("any", "")>> \o FnmatchTokens(Tail(pattern))
    ELSE IF pattern[1] = "?"
    THEN <<Tok("any_char", "")>> \o FnmatchTokens(Tail(pattern))
    ELSE <<Tok("literal", pattern[1])>> \o FnmatchTokens(Tail(pattern))

\* re.match of the whole text against the expression
RECURSIVE ReMatch(_, _)
ReMatch(tokens, text) ==
    IF tokens = <<>> THEN text = <<>>
    ELSE LET tok == Head(tokens) IN
         CASE tok.kind = "literal" ->
                /\ text # <<>>
                /\ Head(text) = tok.char
                /\ ReMatch(Tail(tokens), Tail(text))
           [] tok.kind = "any_char" ->
                /\ text # <<>>
                /\ ReMatch(Tail(tokens), Tail(text))
           [] tok.kind = "segment_char" ->
                /\ text # <<>>
                /\ Head(text) # "/"
                /\ ReMatch(Tail(tokens), Tail(text))
           [] tok.kind = "any" ->
                \E k \in 0..Len(text) :
                    ReMatch(Tail(tokens), SubSeq(text, k + 1, Len(text)))
           [] tok.kind = "segment" ->
                \E k \in 0..Len(text) :
                    /\ \A i \in 1..k : text[i] # "/"
                    /\ ReMatch(Tail(tokens), SubSeq(text, k + 1, Len(text)))

\* Detector._match_pattern on texts
match_pattern_text(path_str, pattern) ==
    LET normal == NormalizePattern(pattern) IN
    IF HasDoubleStar(normal)
    THEN ReMatch(RegexTokens(normal), path_str)
    ELSE ReMatch(FnmatchTokens(normal), path_str)

\* _should_scan that lets a matching include pattern decide before the
\* ignore patterns are looked at
should_scan_text_include_first(path, ignore, include) ==
    IF PathSuffix(path) # <<".", "p", "y">> THEN FALSE
    ELSE LET rel_path == get_relative_posix_path(path) IN
         IF /\ include # <<>>
            /\ \E i \in DOMAIN include : match_pattern_text(rel_path, include[i])
         THEN TRUE
         ELSE IF \E i \in DOMAIN ignore : match_pattern_text(rel_path, ignore[i])
         THEN FALSE
         ELSE include = <<>>

\* Detector._should_scan on texts
should_scan_text(path, ignore, include) ==
    IF PathSuffix(path) # <<".", "p", "y">> THEN FALSE
    ELSE LET rel_path == get_relative_posix_path(path) IN
         IF \E i \in DOMAIN ignore : match_pattern_text(rel_path, ignore[i])
         THEN FALSE
         ELSE IF /\ include # <<>>
                 /\ ~\E i \in DOMAIN include : match_pattern_text(rel_path, include[i])
         THEN FALSE
         ELSE TRUE

PathIdle ==
    /\ probe = <<>>
    /\ ignore_patterns = <<>>
    /\ include_patterns = <<>>
    /\ ppc = "off"
    /\ matched = <<>>
    /\ decided = <<>>

\* Detector(ignore_patterns, include_patterns, root_path=/r) and a path
PathInit ==
    /\ probe \in ScanPaths
    /\ ignore_patterns \in PatternLists
    /\ include_patterns \in PatternLists
    /\ ppc = "ready"
    /\ matched = <<>>
    /\ decided = <<>>

\* self._match_pattern(rel_path, pattern) is called
MatchPattern ==
    /\ ppc = "ready"
    /\ matched = <<>>
    /\ \E g \in GlobPatterns :
          matched' = <<[pattern |-> g,
                        result |-> match_pattern_text(get_relative_posix_path(probe), g)]>>
    /\ UNCHANGED <<probe, ignore_patterns, include_patterns, ppc, decided>>
    /\ UNCHANGED <<scanVars, deadVars, dupVars, nodeVars, normVars>>

\* self._should_scan(path) is called
ShouldScan ==
    /\ ppc = "ready"
    /\ decided' = <<should_scan_text(probe, ignore_patterns, include_patterns)>>
    /\ ppc' = "done"
    /\ UNCHANGED <<probe, ignore_patterns, include_patterns, matched>>
    /\ UNCHANGED <<scanVars, deadVars, dupVars, nodeVars, normVars>>

\* ------------------------------------------------------------------------
\* Tree-based detectors on one node (specification SpecNode):
\* SingleMethodClass, WrongStdlibImport and UnreachableCode
\* ------------------------------------------------------------------------
Subscript(value, slice) == [t |-> "Subscript", value |-> value, slice |-> slice]
Keyword(arg, value)     == [arg |-> arg, value |-> value]
Alias(name)             == [name |-> name]
Import(names)           == [t |-> "Import", names |-> names]
ImportFrom(module, names, level) ==
    [t |-> "ImportFrom", module |-> module, names |-> names, level |-> level]

SPECIAL_METHODS == {"__init__", "__new__", "__del__", "__repr__", "__str__"}

INTERFACE_BASES ==
    {"Protocol", "ABC", "ABCMeta", "Interface", "Generic", "TypedDict",
     "NamedTuple", "Enum", "IntEnum", "StrEnum", "Flag", "IntFlag", "Exception",
     "BaseException"}

SPECIAL_DECORATORS ==
    {"dataclass", "dataclasses.dataclass", "attrs", "attr.s", "attr.attrs",
     "define", "attr.define", "frozen", "attr.frozen", "runtime_checkable",
     "typing.runtime_checkable", "final", "typing.final"}

\* SingleMethodClass._get_base_name
RECURSIVE get_base_name(_)
get_base_name(base) ==
    CASE base.t = "Name"      -> base.id
      [] base.t = "Attribute" -> base.attr
      [] base.t = "Subscript" -> get_base_name(base.value)
      [] OTHER -> None

\* SingleMethodClass._is_interface_class
is_interface_class(node) ==
    \/ \E i \in DOMAIN node.bases : get_base_name(node.bases[i]) \in INTERFACE_BASES
    \/ \E i \in DOMAIN node.keywords :
          /\ node.keywords[i].arg = "metaclass"
          /\ get_base_name(node.keywords[i].value) \in INTERFACE_BASES

\* SingleMethodClass._has_special_decorator; its _get_decorator_name is the
\* same code as DeadCodeAnalyzer._get_decorator_name
has_special_decorator(node) ==
    \E i \in DOMAIN node.decorator_list :
        get_decorator_name(node.decorator_list[i]) \in SPECIAL_DECORATORS

\* SingleMethodClass._has_significant_base
has_significant_base(node) ==
    /\ node.bases # <<>>
    /\ \E i \in DOMAIN node.bases :
          LET base_name == get_base_name(node.bases[i])
          IN  base_name # None /\ base_name # "object"

IsFunction(n) == n.t \in {"FunctionDef", "AsyncFunctionDef"}

\* `methods` of check_node: the functions of the class body that are neither
\* special nor start with an underscore
CountedMethods(node) ==
    SelectSeq(node.body,
              LAMBDA n : /\ IsFunction(n)
                         /\ n.name \notin SPECIAL_METHODS
                         /\ ~startswith(n.name, "_"))

\* `special` of check_node
CountedSpecial(node) ==
    SelectSeq(node.body, LAMBDA n : IsFunction(n) /\ n.name \in SPECIAL_METHODS)

\* SingleMethodClass.check_node
SingleMethodClass_check_node(node, file) ==
    IF node.t # "ClassDef" THEN <<>>
    ELSE IF is_interface_class(node) THEN <<>>
    ELSE IF has_special_decorator(node) THEN <<>>
    ELSE IF has_significant_base(node) THEN <<>>
    ELSE IF Len(CountedMethods(node)) = 1 /\ Len(CountedSpecial(node)) <= 1
    THEN <<Issue("single_method_class", file, 1)>>
    ELSE <<>>

\* sys.stdlib_module_names, the members the model's imports can name
STDLIB_MODULES == {"os", "json", "sys", "typing", "dataclasses"}

\* what importlib.util.find_spec finds in the environment besides the
\* standard library
Installed == {"requests"}

\* module_name.split(".")[0]
BaseOf(module_name) ==
    CASE module_name = "os.path"    -> "os"
      [] module_name = "utils.text" -> "utils"
      [] OTHER -> module_name

\* import_validator.module_exists
module_exists(module_name) ==
    \/ BaseOf(module_name) \in STDLIB_MODULES
    \/ module_name \in Installed

\* one directory: the modules it holds as <name>.py, its sub-directories,
\* those of them holding __init__.py, and whether it holds __init__.py itself
Level(files, dirs, packages, init) ==
    [files |-> files, dirs |-> dirs, packages |-> packages, init |-> init]

\* for _ in range(3)
LookupLevels == 3

\* the loop over the parent directories: `levels` is the directory of the
\* source file followed by its parents up to the root
RECURSIVE LookUp(_, _, _, _)
LookUp(base, levels, i, remaining) ==
    IF remaining = 0 THEN FALSE
    ELSE IF base \in levels[i].files THEN TRUE
    ELSE IF base \in levels[i].dirs THEN TRUE
    ELSE IF i = Len(levels) THEN FALSE
    ELSE IF ~levels[i].init THEN FALSE
    ELSE LookUp(base, levels, i + 1, remaining - 1)

hallucinated_patterns == {"utils", "helpers", "common"}

\* import_validator.is_likely_hallucinated_package; source_file is the chain
\* of directories of the source file, or <<>> for None
is_likely_hallucinated_package(module_name, source_file, strict) ==
    LET base == BaseOf(module_name) IN
    IF /\ source_file # <<>>
       /\ \/ base \in source_file[1].files
          \/ base \in source_file[1].packages
          \/ LookUp(base, source_file, 1, LookupLevels)
    THEN None
    ELSE IF base \in STDLIB_MODULES THEN None
    ELSE IF strict
    THEN IF module_exists(module_name) THEN None
         ELSE "Module '" \o module_name \o "' not found in environment"
    ELSE IF base \in hallucinated_patterns
    THEN "Module '" \o base \o "' does not exist - did you mean a local module?"
    ELSE None

\* WrongStdlibImport.check_node: is_likely_hallucinated_package is called
\* with the module name alone
WrongStdlibImport_check_node(node, file) ==
    CASE node.t = "Import" ->
            Concat([i \in DOMAIN node.names |->
                IF is_likely_hallucinated_package(node.names[i].name, <<>>, FALSE) # None
                THEN <<Issue("wrong_stdlib_import", file, 1)>>
                ELSE <<>>])
      [] node.t = "ImportFrom" ->
            IF /\ node.module # None
               /\ node.module # ""
               /\ is_likely_hallucinated_package(node.module, <<>>, FALSE) # None
            THEN <<Issue("wrong_stdlib_import", file, 1)>>
            ELSE <<>>
      [] OTHER -> <<>>

Method(name) == FunctionDef(name, <<>>, <<>>, NoExpr, <<Pass>>)

MethodPool ==
    <<Method("__init__"), Method("__repr__"), Method("process"),
      [Method("validate") EXCEPT !.t = "AsyncFunctionDef"], Method("_helper"),
      Method("__eq__")>>

MethodNames == {MethodPool[i].name : i \in DOMAIN MethodPool}

\* class bodies: an attribute assignment and any choice of the methods
ClassBodies ==
    {<<Assign(<<Name("kind")>>, Constant("p"))>>
        \o SelectSeq(MethodPool, LAMBDA m : m.name \in chosen) :
     chosen \in SUBSET MethodNames}

\* bases, keywords and decorators of the classes
ClassHeads ==
    {[bases |-> <<>>, keywords |-> <<>>, decorator_list |-> <<>>],
     [bases |-> <<Name("object")>>, keywords |-> <<>>, decorator_list |-> <<>>],
     [bases |-> <<Name("Protocol")>>, keywords |-> <<>>, decorator_list |-> <<>>],
     [bases |-> <<Subscript(Name("Generic"), Name("T"))>>, keywords |-> <<>>,
      decorator_list |-> <<>>],
     [bases |-> <<Attribute(Name("abc"), "ABC")>>, keywords |-> <<>>,
      decorator_list |-> <<>>],
     [bases |-> <<Name("Base")>>, keywords |-> <<>>, decorator_list |-> <<>>],
     [bases |-> <<>>, keywords |-> <<Keyword("metaclass", Name("ABCMeta"))>>,
      decorator_list |-> <<>>],
     [bases |-> <<>>, keywords |-> <<>>, decorator_list |-> <<Name("dataclass")>>],
     [bases |-> <<>>, keywords |-> <<>>,
      decorator_list |-> <<Call(Attribute(Name("dataclasses"), "dataclass"), <<>>)>>],
     [bases |-> <<>>, keywords |-> <<>>, decorator_list |-> <<Name("register")>>]}

ClassNodes ==
    {ClassDef("Processor", h.bases, h.keywords, h.decorator_list, body) :
        h \in ClassHeads, body \in ClassBodies}

ImportNodes ==
    {Import(<<Alias("nonexistent_pkg")>>),
     Import(<<Alias("utils")>>),
     Import(<<Alias("config")>>),
     Import(<<Alias("os.path")>>),
     Import(<<Alias("requests")>>),
     Import(<<Alias("json"), Alias("helpers")>>),
     ImportFrom("nonexistent_pkg", <<Alias("thing")>>, 0),
     ImportFrom("helper_module", <<Alias("helper_function")>>, 0),
     ImportFrom("utils", <<Alias("utility_function")>>, 0),
     ImportFrom("utils.text", <<Alias("wrap")>>, 0),
     ImportFrom("json", <<Alias("loads")>>, 0),
     ImportFrom(None, <<Alias("sibling")>>, 1)}

LocalNames == {"nonexistent_pkg", "utils", "config", "helper_module"}

\* the directory of the importing file and its parents
Listings ==
    {<<Level({}, {}, {}, FALSE)>>,
     <<Level(LocalNames, {}, {}, FALSE)>>,
     <<Level({}, LocalNames, LocalNames, FALSE)>>,
     <<Level({}, LocalNames, {}, FALSE)>>,
     <<Level({}, {}, {}, TRUE), Level(LocalNames, {}, {}, FALSE)>>,
     <<Level({}, {}, {}, FALSE), Level(LocalNames, {}, {}, FALSE)>>,
     <<Level({}, {}, {}, TRUE), Level({}, {}, {}, TRUE), Level({}, {}, {}, TRUE),
       Level(LocalNames, {}, {}, FALSE)>>}

\* ast.iter_child_nodes(stmt): for every field of the node in turn, the value
\* if it is a node, and each node of the value if it is a list of nodes; the
\* list itself is never among the children.  Each child comes with its line.
iter_child_nodes(stmt, line) ==
    CASE stmt.t = "If" ->
            <<[is_list |-> FALSE, value |-> stmt.test, line |-> line]>>
            \o [i \in DOMAIN stmt.body |->
                    [is_list |-> FALSE, value |-> stmt.body[i],
                     line |-> LineOf(stmt.body, i, line + 1)]]
      [] stmt.t = "For" ->
            <<[is_list |-> FALSE, value |-> stmt.iter, line |-> line]>>
            \o [i \in DOMAIN stmt.body |->
                    [is_list |-> FALSE, value |-> stmt.body[i],
                     line |-> LineOf(stmt.body, i, line + 1)]]
      [] OTHER -> <<>>

\* check_body of UnreachableCode.check_node from the i-th statement on: the
\* lines of the issues it appends
RECURSIVE check_body(_, _, _)
check_body(body, i, first) ==
    IF i > Len(body) THEN <<>>
    ELSE LET stmt == body[i]
             line == LineOf(body, i, first)
             children == iter_child_nodes(stmt, line)
             after == IF stmt.t \in {"Return", "Raise"} /\ i < Len(body)
                      THEN <<LineOf(body, i + 1, first)>>
                      ELSE <<>>
             nested == IF stmt.t \in {"If", "For", "While", "With", "Try"}
                       THEN Concat([c \in DOMAIN children |->
                                IF children[c].is_list
                                THEN check_body(children[c].value, 1, children[c].line)
                                ELSE <<>>])
                       ELSE <<>>
         IN  after \o nested \o check_body(body, i + 1, first)

\* UnreachableCode.check_node for a node at line 1
UnreachableCode_check_node(node, file) ==
    IF node.t # "FunctionDef" THEN <<>>
    ELSE LET lines == check_body(node.body, 1, 2)
         IN  [k \in DOMAIN lines |-> Issue("unreachable_code", file, lines[k])]

\* return value / raise / pass
SimpleStmts == {Return(Name("value")), Raise, Pass}

SimpleBodies == {<<a>> : a \in SimpleStmts} \cup {<<a, b>> : a, b \in SimpleStmts}

\* a simple statement, or a condition or a loop over simple statements, or a
\* loop inside a condition
NestedStmts ==
    SimpleStmts
    \cup {If(Name("ready"), b) : b \in SimpleBodies}
    \cup {For(Name("items"), b) : b \in SimpleBodies}
    \cup {If(Name("ready"), <<For(Name("items"), <<Raise, Pass>>)>>)}

FunctionNodes ==
    {FunctionDef("run", <<>>, <<>>, NoExpr, b) :
        b \in {<<a>> : a \in NestedStmts} \cup {<<a, b>> : a, b \in NestedStmts}}

NodeIdle ==
    /\ subject = <<>>
    /\ listing = <<>>
    /\ npc = "off"
    /\ node_issues = <<>>
    /\ verdict = <<>>

\* a node of the tree of file 1, and the directories around that file
NodeInit ==
    /\ \/ subject \in ClassNodes /\ listing = <<Level({}, {}, {}, FALSE)>>
       \/ subject \in ImportNodes /\ listing \in Listings
       \/ subject \in FunctionNodes /\ listing = <<Level({}, {}, {}, FALSE)>>
    /\ npc = "ready"
    /\ node_issues = <<>>
    /\ verdict = <<>>

\* SingleMethodClass().check_node(node, file, source_lines)
CheckSingleMethodClass ==
    /\ npc = "ready"
    /\ node_issues' = SingleMethodClass_check_node(subject, 1)
    /\ npc' = "single_method_class"
    /\ UNCHANGED <<subject, listing, verdict>>
    /\ UNCHANGED <<scanVars, deadVars, dupVars, pathVars, normVars>>

\* WrongStdlibImport().check_node(node, file, source_lines)
CheckWrongStdlibImport ==
    /\ npc = "ready"
    /\ node_issues' = WrongStdlibImport_check_node(subject, 1)
    /\ npc' = "wrong_stdlib_import"
    /\ UNCHANGED <<subject, listing, verdict>>
    /\ UNCHANGED <<scanVars, deadVars, dupVars, pathVars, normVars>>

\* UnreachableCode().check_node(node, file, source_lines)
CheckUnreachableCode ==
    /\ npc = "ready"
    /\ node_issues' = UnreachableCode_check_node(subject, 1)
    /\ npc' = "unreachable_code"
    /\ UNCHANGED <<subject, listing, verdict>>
    /\ UNCHANGED <<scanVars, deadVars, dupVars, pathVars, normVars>>

\* is_likely_hallucinated_package(module, source_file, strict) called for the
\* module of an import
ValidatePackage ==
    /\ npc = "ready"
    /\ subject.t \in {"Import", "ImportFrom"}
    /\ \E strict \in BOOLEAN, with_source \in BOOLEAN :
          LET module_name == IF subject.t = "Import" THEN subject.names[1].name
                             ELSE subject.module
          IN  /\ module_name # None
              /\ verdict' = <<[module |-> module_name,
                               strict |-> strict,
                               source_file |-> with_source,
                               result |-> is_likely_hallucinated_package(
                                   module_name,
                                   IF with_source THEN listing ELSE <<>>,
                                   strict)]>>
    /\ npc' = "validated"
    /\ UNCHANGED <<subject, listing, node_issues>>
    /\ UNCHANGED <<scanVars, deadVars, dupVars, pathVars, normVars>>

\* ------------------------------------------------------------------------
\* Properties of Detector.scan (specification Spec)
\* ------------------------------------------------------------------------
Last(s) == s[Len(s)]

\* a call of scan() has just returned: `issues`, `analyzed` are that call's
Returned == pc = "idle" /\ results # <<>>

\* the files the returned call visited and _should_scan accepted
Eligible == {f \in Range(Expand(paths)) : should_scan(f)}

Parseable(f) == read_text(f) = "ok" /\ ast_parse(fs[f].src) = "ok"

\* the issues of one file, taken alone
OwnIssues(f) ==
    LET patterns == Patterns(cfg.disabled_patterns) IN
    ASTAnalyze(f, fs[f].src, patterns)
        \o LineChecks(f, fs[f].src, patterns, get_multiline_string_lines(fs[f].src))

\* C1: every issue that scan returns has a severity level greater than or
\* equal to the level of the configured min_severity.
C1_SeverityAtLeastMin ==
    \A r \in DOMAIN results : \A k \in DOMAIN results[r] :
        SEVERITY_ORDER[results[r][k].severity] >= SEVERITY_ORDER[cfg.min_severity]

\* a scan under min_severity "high" that found a lower issue and returned
\* a higher one
C1_Witness ==
    /\ Returned
    /\ cfg.min_severity = "high"
    /\ Last(results) # <<>>
    /\ \E k \in DOMAIN issues : issues[k].severity \in {"low", "medium"}

\* C2: the list that scan returns is ordered by severity descending, then
\* file ascending, then line ascending: of two adjacent issues the earlier
\* has the higher severity, or the same severity and a smaller file, or the
\* same severity and file and a smaller or equal line.
C2_SortedBySeverityFileLine ==
    \A r \in DOMAIN results : \A k \in 1..(Len(results[r]) - 1) :
        LET a == results[r][k]
            b == results[r][k + 1]
        IN  \/ SEVERITY_ORDER[a.severity] > SEVERITY_ORDER[b.severity]
            \/ a.severity = b.severity /\ a.file < b.file
            \/ a.severity = b.severity /\ a.file = b.file /\ a.line <= b.line

\* a scan whose loops found the issues in another order than the returned one
C2_Witness ==
    /\ Returned
    /\ Len(Last(results)) >= 3
    /\ Last(results) # FilterSeverity(issues)

C4_ScanDeterministic ==
    \A r \in DOMAIN results : results[r] = results[1]

\* two scans have returned, each visited a file with a multi-line string
\* last, and the result holds two issues that tie on (severity, file, line)
C4_Witness ==
    /\ Len(results) >= 2
    /\ pc = "idle"
    /\ multiline_string_lines # {}
    /\ \E k \in 1..(Len(results[1]) - 1) :
          /\ results[1][k].severity = results[1][k + 1].severity
          /\ results[1][k].file = results[1][k + 1].file
          /\ results[1][k].line = results[1][k + 1].line

\* the loops of scan() are about to call _scan_file on a file that it reads
\* and parses, so that the detectors are invoked for it
DetectorsInvoked ==
    /\ pc = "loop"
    /\ todo # <<>>
    /\ should_scan(Head(todo))
    /\ Parseable(Head(todo))

OwnMask(f) == get_multiline_string_lines(fs[f].src)

\* C27: whenever a detector, tree-based or line-based, is invoked for a
\* file, the multi-line-string mask it holds is the one computed from the
\* content of that file, never the mask of a file scanned before.
C27_EveryDetectorHoldsOwnMask ==
    DetectorsInvoked =>
        /\ scan_file(Head(todo)).tree_mask = OwnMask(Head(todo))
        /\ scan_file(Head(todo)).line_mask = OwnMask(Head(todo))

\* C27 as the code has it: whenever a line-based detector is invoked for a
\* file, the mask it holds is the one computed from the content of that
\* file.
C27_LineDetectorHoldsOwnMask ==
    DetectorsInvoked => scan_file(Head(todo)).line_mask = OwnMask(Head(todo))

\* the detectors are invoked for a file while the patterns still carry the
\* different, non-empty mask of the file scanned before
C27_Witness ==
    /\ DetectorsInvoked
    /\ analyzed # {}
    /\ multiline_string_lines # {}
    /\ multiline_string_lines # OwnMask(Head(todo))

\* how often the loops of the returned call reached a file
Visits(f) == Cardinality({i \in DOMAIN Expand(paths) : Expand(paths)[i] = f})

\* how often the returned call ran the detectors on a file: once for each
\* visit of a file that _should_scan accepts and _scan_file reads and parses
Analyses(f) == IF f \in Eligible /\ Parseable(f) THEN Visits(f) ELSE 0

\* C30: within one call of scan every eligible file is analysed at most once
\* and each of its issues is in the result at most once, also when the file
\* is reachable through more than one of the paths given.
C30_EachFileOnce ==
    Returned =>
        \A f \in Eligible :
            /\ Analyses(f) <= 1
            /\ Len(SelectSeq(Last(results), LAMBDA i : i.file = f))
                   <= Len(FilterSeverity(OwnIssues(f)))

\* C6: for every eligible, parseable file scan runs the dead-code analyzer
\* (unless "dead_code" is disabled) and merges its issues into the result:
\* a file that defines the unreferenced private function _unused yields
\* exactly one issue with pattern_id "dead_code".
C6_DeadCodeMerged ==
    Returned =>
        \A f \in Eligible :
            /\ Parseable(f)
            /\ fs[f].src = <<UNUSED>>
            /\ "dead_code" \notin cfg.disabled_patterns
            /\ SEVERITY_ORDER[cfg.min_severity] <= SEVERITY_ORDER["medium"]
            => Cardinality({k \in DOMAIN Last(results) :
                    /\ Last(results)[k].pattern_id = "dead_code"
                    /\ Last(results)[k].file = f}) = 1

\* C7: scan feeds the eligible files to the duplicate detector once and
\* merges its issues into the result: a directory with two files that hold
\* the same function of at least 5 lines yields exactly one issue with
\* pattern_id "duplicate_code".
C7_DuplicatesMerged ==
    /\ Returned
    /\ paths = <<DIR>>
    /\ Cardinality({f \in Eligible : Parseable(f) /\ fs[f].src = <<FUNC6>>}) = 2
    /\ SEVERITY_ORDER[cfg.min_severity] <= SEVERITY_ORDER["medium"]
    /\ "duplicate_code" \notin cfg.disabled_patterns
    => Cardinality({k \in DOMAIN Last(results) :
            Last(results)[k].pattern_id = "duplicate_code"}) = 1

\* ------------------------------------------------------------------------
\* Properties of the line-based checks (specification SpecLines)
\* ------------------------------------------------------------------------
\* the issue of detector `id` at line n of file f is among the collected ones
HasIssue(id, f, n) ==
    \E k \in DOMAIN issues :
        /\ issues[k].pattern_id = id
        /\ issues[k].file = f
        /\ issues[k].line = n

\* the text matches the detector and nothing in the line itself excuses it:
\* the match is not in a string or comment of the line, nor a well-known number
LiveMatch(id, text) ==
    /\ RegexMatches(id, text)
    /\ ~is_in_string_or_comment(text, id)
    /\ id = "magic_number" => MatchGroup(text) \notin WELL_KNOWN_NUMBERS

\* C15: for every line-based detector, those that override check_line
\* included, a textual match on a physical line inside a multi-line string
\* literal gives no issue, and the same text on an executable line gives one.
C15_MultilineSuppressed ==
    \A f \in analyzed :
        LET lines == splitlines(fs[f].src)
            mask  == get_multiline_string_lines(fs[f].src)
            ids   == {id \in Range(Patterns(cfg.disabled_patterns)) : HasCheckLine(id)}
        IN  \A id \in ids : \A n \in DOMAIN lines :
                LiveMatch(id, lines[n]) =>
                    IF n \in mask THEN ~HasIssue(id, f, n) ELSE HasIssue(id, f, n)

RegisteredIds == Range(get_all_patterns)

\* the place of a detector in the registry
IndexOf(id) == CHOOSE i \in DOMAIN get_all_patterns : get_all_patterns[i] = id

\* C16: no issue scan() returns carries a pattern_id of the disabled set; an
\* id of the set that names no registered detector changes nothing: the other
\* detectors stay, in the order of the registry.
C16_DisabledNeverReported ==
    LET active == Patterns(cfg.disabled_patterns) IN
    /\ \A r \in DOMAIN results : \A k \in DOMAIN results[r] :
          results[r][k].pattern_id \notin cfg.disabled_patterns
    /\ \A k \in DOMAIN issues : issues[k].pattern_id \notin cfg.disabled_patterns
    /\ active = Patterns(cfg.disabled_patterns \cap RegisteredIds)
    /\ Range(active) = RegisteredIds \ cfg.disabled_patterns
    /\ \A i, j \in DOMAIN active : i < j => IndexOf(active[i]) < IndexOf(active[j])

\* scan() has returned issues for a file with a magic number on an executable
\* line while magic_number and an unknown id are disabled
C16_Witness ==
    /\ Returned
    /\ cfg.disabled_patterns = {"magic_number", "no_such_pattern"}
    /\ 1 \in analyzed
    /\ NUM \in Range(fs[1].src)
    /\ \E k \in DOMAIN Last(results) : Last(results)[k].file = 1

\* ------------------------------------------------------------------------
\* Properties of DeadCodeAnalyzer.analyze (specification SpecDead)
\* ------------------------------------------------------------------------
\* every expression of a statement and of the statements nested in it
RECURSIVE ExprsOf(_)
ExprsOf(stmt) ==
    CASE stmt.t = "Expr"   -> {stmt.value}
      [] stmt.t = "Assign" -> Range(stmt.targets) \cup {stmt.value}
      [] stmt.t = "FunctionDef" ->
            Range(stmt.decorator_list) \cup {stmt.returns}
            \cup {stmt.args[i].annotation : i \in DOMAIN stmt.args}
            \cup {stmt.args[i].default : i \in DOMAIN stmt.args}
            \cup UNION {ExprsOf(stmt.body[i]) : i \in DOMAIN stmt.body}
      [] stmt.t = "ClassDef" ->
            Range(stmt.decorator_list) \cup Range(stmt.bases) \cup Range(stmt.keywords)
            \cup UNION {ExprsOf(stmt.body[i]) : i \in DOMAIN stmt.body}
      [] stmt.t = "AugAssign" -> {stmt.target, stmt.value}
      [] stmt.t = "Return" -> {stmt.value}
      [] stmt.t = "If" ->
            {stmt.test} \cup UNION {ExprsOf(stmt.body[i]) : i \in DOMAIN stmt.body}
      [] stmt.t = "For" ->
            {stmt.iter} \cup UNION {ExprsOf(stmt.body[i]) : i \in DOMAIN stmt.body}
      [] OTHER -> {}

\* the names that occur anywhere in the file as a bare name, a call target,
\* a base-class expression or an attribute name
Occurring(body) ==
    UNION {VisitExpr(e) : e \in UNION {ExprsOf(body[i]) : i \in DOMAIN body}}

\* C5: a module-level function or class whose name occurs anywhere in the
\* file as a bare name reference, a call target, a base-class expression or
\* an attribute name is never reported as dead_code.
C5_ReferencedNeverDead ==
    dpc = "done" =>
        \A k \in DOMAIN dead_issues :
            dead_issues[k].kind \in {"function", "class"}
                => dead_issues[k].name \notin Occurring(tree)

\* C10: a method is reported as dead_code only if the name of its class is
\* referenced nowhere in the file: when the class name is referenced, none
\* of the methods of the class is reported.
C10_MethodsOfReferencedClassKept ==
    dpc = "done" =>
        \A k \in DOMAIN dead_issues :
            dead_issues[k].kind = "method"
                => dead_issues[k].parent_class \notin Occurring(tree)

\* C21: every definition reported as dead_code has a name that is absent
\* from the used-names set; a method whose bare name occurs as an attribute
\* access or call target is never reported, whether or not the name of its
\* class is referenced.
C21_ReportedNameUnused ==
    dpc = "done" =>
        \A k \in DOMAIN dead_issues : dead_issues[k].name \notin used_names

\* the function and class definitions of the file, each with its line
DefNodes(body) ==
    {e \in Range(ast_walk(body)) : e.node.t \in {"FunctionDef", "ClassDef"}}

IsDunder(name) == startswith(name, "__") /\ endswith(name, "__")

\* C11: no function or method whose name both starts and ends with a double
\* underscore is ever registered as a candidate definition or reported as
\* dead_code, referenced or not.
C11_DunderNeverTracked ==
    /\ \A i \in DOMAIN definitions :
          /\ ~IsDunder(definitions[i].name)
          /\ \A e \in DefNodes(tree) :
                e.node.t = "FunctionDef" /\ IsDunder(e.node.name)
                    => definitions[i].line # e.line
    /\ \A k \in DOMAIN dead_issues : ~IsDunder(dead_issues[k].name)

\* analyze() has returned for a file that defines a dunder function or method
\* nothing refers to, and has reported something else
C11_Witness ==
    /\ dpc = "done"
    /\ dead_issues # <<>>
    /\ \E e \in DefNodes(tree) :
          /\ e.node.t = "FunctionDef"
          /\ IsDunder(e.node.name)
          /\ e.node.name \notin used_names

\* the string literals of the lists and tuples assigned or augmented-assigned
\* to __all__ anywhere in the file
ExportedLiterals(body) ==
    UNION {
        IF \/ /\ e.node.t = "Assign"
              /\ Name("__all__") \in Range(e.node.targets)
           \/ /\ e.node.t = "AugAssign"
              /\ e.node.target = Name("__all__")
        THEN StringElts(e.node.value) ELSE {}
        : e \in Range(ast_walk(body)) }

\* C12: a definition whose name is a string literal of a list or tuple
\* assigned or augmented-assigned to __all__ anywhere in the file is never
\* reported as dead_code; the export set is complete before the definitions
\* are collected and before any of them is considered for the report.
C12_ExportedNeverDead ==
    /\ dpc \in {"visit", "done"} => exported_names = ExportedLiterals(tree)
    /\ \A k \in DOMAIN dead_issues : dead_issues[k].name \notin ExportedLiterals(tree)

\* analyze() has returned for a file whose __all__ is extended inside an `if`,
\* after the definition it names, and nothing else refers to that definition
C12_Witness ==
    /\ dpc = "done"
    /\ \E e \in DefNodes(tree), a \in Range(ast_walk(tree)) :
          /\ a.node.t = "AugAssign"
          /\ a.node.target = Name("__all__")
          /\ a.line > e.line + 1
          /\ e.node.name \in StringElts(a.node.value)
          /\ e.node.name \notin used_names
          /\ \E i \in DOMAIN definitions : definitions[i].line = e.line

\* the name a decorator is written with: the dotted name, and its last part
DecoratorNames(dec) ==
    LET parts == DottedParts(IF dec.t = "Call" THEN dec.func ELSE dec)
    IN  IF parts = <<>> THEN {} ELSE {JoinDots(parts), parts[Len(parts)]}

\* the definition carries a decorator of the external-use set
CarriesExternalDecorator(node) ==
    \E i \in DOMAIN node.decorator_list :
        DecoratorNames(node.decorator_list[i]) \cap external_decorators # {}

\* C13: a function or class that carries a decorator of the external-use set
\* gives no dead_code issue: its name is marked used and it is not registered
\* as a candidate definition.
C13_ExternalDecoratorKept ==
    dpc = "done" =>
        \A e \in DefNodes(tree) :
            CarriesExternalDecorator(e.node) =>
                /\ e.node.name \in used_names
                /\ \A i \in DOMAIN definitions : definitions[i].line # e.line
                /\ \A k \in DOMAIN dead_issues : dead_issues[k].line # e.line

\* analyze() has returned for a file with a function under @app.route(...) that
\* nothing else refers to, and has reported another definition
C13_Witness ==
    /\ dpc = "done"
    /\ dead_issues # <<>>
    /\ \E e \in DefNodes(tree) :
          /\ CarriesExternalDecorator(e.node)
          /\ \E i \in DOMAIN e.node.decorator_list :
                e.node.decorator_list[i].t = "Call"
          /\ e.node.name \notin Occurring(tree)

\* C14: an unreferenced function or class whose name does not begin with an
\* underscore is never reported as dead_code: every reported definition is
\* private by convention.
C14_OnlyPrivateReported ==
    dpc = "done" =>
        \A k \in DOMAIN dead_issues : startswith(dead_issues[k].name, "_")

\* ------------------------------------------------------------------------
\* Properties of DuplicateDetector
\* ------------------------------------------------------------------------
\* the definition a block or an issue points at: the function or class that
\* starts at `line` of `file`
DefinitionAt(file, line) ==
    LET walk == ast_walk(dfs[file].body)
    IN  (CHOOSE e \in Range(walk) :
            e.line = line /\ e.node.t \in {"FunctionDef", "ClassDef"}).node

\* the definitions of a file whose span is below MIN_LINES
SmallDefinitions(file) ==
    IF ~dfs[file].syntax_ok THEN {}
    ELSE {e \in Range(ast_walk(dfs[file].body)) :
            /\ e.node.t \in {"FunctionDef", "ClassDef"}
            /\ Span(e.node) < MIN_LINES}

\* C8: find_duplicates never emits an issue for two blocks of the same file:
\* the block an issue is reported for and the block it is "same as" are in
\* different files, and blocks that all come from one file give no issue at
\* all, however many of them have the same fingerprint.
C8_CrossFileOnly ==
    upc = "found" =>
        /\ \A i \in DOMAIN dup_issues :
              dup_issues[i].file # dup_issues[i].same_as.file
        /\ (\A i, j \in DOMAIN blocks : blocks[i].file = blocks[j].file)
              => dup_issues = <<>>

\* two blocks of one file have the same fingerprint, find_duplicates has run
\* and has reported a pair across files
C8_Witness ==
    /\ upc = "found"
    /\ dup_issues # <<>>
    /\ \E i, j \in DOMAIN blocks :
          /\ i # j
          /\ blocks[i].file = blocks[j].file
          /\ blocks[i].line # blocks[j].line
          /\ blocks[i].code_hash = blocks[j].code_hash

\* C9: a function or class whose span (end line - start line + 1) is below
\* MIN_LINES never becomes a CodeBlock and is neither member of the pair of
\* any duplicate_code issue, however many identical copies the files hold.
C9_MinimumSize ==
    /\ \A i \in DOMAIN blocks :
          /\ Span(DefinitionAt(blocks[i].file, blocks[i].line)) >= MIN_LINES
          /\ blocks[i].line_count >= MIN_LINES
    /\ \A i \in DOMAIN dup_issues :
          /\ Span(DefinitionAt(dup_issues[i].file, dup_issues[i].line)) >= MIN_LINES
          /\ Span(DefinitionAt(dup_issues[i].same_as.file,
                               dup_issues[i].same_as.line)) >= MIN_LINES

\* two files that were both added hold a structurally identical definition of
\* fewer than MIN_LINES lines, and find_duplicates has run
C9_Witness ==
    /\ upc = "found"
    /\ \E f, g \in DupFiles :
          /\ f # g
          /\ \E i, j \in DOMAIN blocks : blocks[i].file = f /\ blocks[j].file = g
          /\ \E d \in SmallDefinitions(f), e \in SmallDefinitions(g) :
                /\ d.node.t = "FunctionDef" /\ e.node.t = "FunctionDef"
                /\ normalize_function(d.node) = normalize_function(e.node)

\* (file, line) order of two locations
LocationBefore(a, b) == a[1] < b[1] \/ (a[1] = b[1] /\ a[2] < b[2])

IssueLocation(issue) == <<issue.file, issue.line>>
SameAsLocation(issue) == <<issue.same_as.file, issue.same_as.line>>

\* C22: each duplicate_code issue is attributed to the block of its pair that
\* is later in (file, line) order and its message names the earlier block,
\* whatever the order in which the files were added.
C22_AttributedToLaterBlock ==
    upc = "found" =>
        \A i \in DOMAIN dup_issues :
            LocationBefore(SameAsLocation(dup_issues[i]), IssueLocation(dup_issues[i]))

\* the position in self.blocks at which a location was first added
FirstAdded(location) ==
    CHOOSE i \in DOMAIN blocks :
        /\ Location(blocks[i]) = location
        /\ \A j \in DOMAIN blocks : Location(blocks[j]) = location => i <= j

\* C22, amended: each duplicate_code issue is attributed to the block of its
\* pair that was added to the detector later, and its message names the
\* block that was added first.
C22_AttributedToLaterAdded ==
    upc = "found" =>
        \A i \in DOMAIN dup_issues :
            FirstAdded(SameAsLocation(dup_issues[i]))
                < FirstAdded(IssueLocation(dup_issues[i]))

\* the files were added in descending order, and the issue is attributed to
\* the block that is earlier in (file, line) order
C22_Witness ==
    /\ upc = "found"
    /\ \E i \in DOMAIN dup_issues :
          LocationBefore(IssueLocation(dup_issues[i]), SameAsLocation(dup_issues[i]))

\* the unordered pairs of locations in different files whose blocks share a
\* digest
CrossFilePairs ==
    UNION {UNION {IF /\ blocks[i].file # blocks[j].file
                     /\ blocks[i].code_hash = blocks[j].code_hash
                  THEN {PairKey(blocks[i], blocks[j])}
                  ELSE {} : j \in DOMAIN blocks} : i \in DOMAIN blocks}

IssuePair(issue) == {IssueLocation(issue), SameAsLocation(issue)}

\* C23: find_duplicates emits exactly one issue for every unordered pair of
\* blocks of different files that share a digest, and no two issues of one
\* call are about the same pair of locations, whatever calls of add_file
\* came before.
C23_OneIssuePerCrossFilePair ==
    upc = "found" =>
        /\ \A pair \in CrossFilePairs :
              Cardinality({i \in DOMAIN dup_issues : IssuePair(dup_issues[i]) = pair}) = 1
        /\ \A i \in DOMAIN dup_issues : IssuePair(dup_issues[i]) \in CrossFilePairs
        /\ \A i, j \in DOMAIN dup_issues :
              IssuePair(dup_issues[i]) = IssuePair(dup_issues[j]) => i = j

\* one file was added twice, its block pairs with a block of another file,
\* and find_duplicates has returned one issue for the two
C23_Witness ==
    /\ upc = "found"
    /\ Len(dup_issues) = 1
    /\ \E i, j \in DOMAIN blocks :
          /\ i # j
          /\ Location(blocks[i]) = Location(blocks[j])
          /\ IssuePair(dup_issues[1]) \in
                {PairKey(blocks[i], blocks[k]) : k \in DOMAIN blocks}

\* ------------------------------------------------------------------------
\* Specifications
\* ------------------------------------------------------------------------
\* ------------------------------------------------------------------------
\* Properties of Detector._should_scan and Detector._match_pattern
\* ------------------------------------------------------------------------
RelPath == get_relative_posix_path(probe)

MatchesSome(patterns) ==
    \E i \in DOMAIN patterns : match_pattern_text(RelPath, patterns[i])

\* C17: _should_scan returns True exactly when the path has the .py suffix,
\* its root-relative POSIX path matches no ignore pattern, and the include
\* list is empty or one of its patterns matches; an ignore match wins over
\* an include match.
C17_ShouldScanRule ==
    decided # <<>> =>
        decided[1] = (/\ PathSuffix(probe) = <<".", "p", "y">>
                      /\ ~MatchesSome(ignore_patterns)
                      /\ (include_patterns = <<>> \/ MatchesSome(include_patterns)))

\* a .py path that an ignore pattern and an include pattern both match was
\* decided
C17_Witness ==
    /\ decided = <<FALSE>>
    /\ PathSuffix(probe) = <<".", "p", "y">>
    /\ MatchesSome(ignore_patterns)
    /\ MatchesSome(include_patterns)

\* the part of the text a wildcard of the pattern may cover holds no "/":
\* "**" covers any text, "*" any text without "/", "?" one character other
\* than "/"
WithinSegments(pattern, text) ==
    ReMatch(RegexTokens(NormalizePattern(pattern)), text)

\* C26: in _match_pattern "**" matches any number of path segments, none
\* included: src/**/*.py matches src/a/b/c.py and also src/c.py.
C26_DoubleStarMatchesAnyDepth ==
    \A i \in DOMAIN matched :
        /\ matched[i].pattern = SrcRecPy
        /\ probe \in {SrcDeep, SrcFlat}
        => matched[i].result

\* the components of a path text, split at "/"
RECURSIVE SplitPath(_)
SplitPath(text) ==
    LET slashes == {i \in DOMAIN text : text[i] = "/"}
    IN  IF slashes = {} THEN <<text>>
        ELSE LET first == CHOOSE i \in slashes : \A j \in slashes : i <= j
             IN  <<SubSeq(text, 1, first - 1)>>
                 \o SplitPath(SubSeq(text, first + 1, Len(text)))

\* the names of the directories a path lies beneath
DirectoriesOf(text) ==
    LET parts == SplitPath(text)
    IN  {parts[i] : i \in 1..(Len(parts) - 1)}

\* .venv, venv, node_modules, build, dist, __pycache__ and .git
IgnoredDirectories ==
    {get_default_ignores[k] : k \in {1, 3, 4, 5, 6, 11, 12}}

\* C29: with the default ignore list in effect, no .py file beneath a
\* directory named .venv, venv, node_modules, build, dist, __pycache__ or
\* .git is accepted for scanning.
C29_IgnoredDirectoriesSkipped ==
    /\ decided # <<>>
    /\ Len(ignore_patterns) >= Len(get_default_ignores)
    /\ SubSeq(ignore_patterns, 1, Len(get_default_ignores)) = get_default_ignores
    /\ DirectoriesOf(RelPath) \cap IgnoredDirectories # {}
    => decided[1] = FALSE

\* C18: for every pattern, with or without "**", a match of _match_pattern
\* lets "*" and "?" cover no "/".
C18_WildcardsStayInSegment ==
    \A i \in DOMAIN matched :
        matched[i].result => WithinSegments(matched[i].pattern, RelPath)

\* ------------------------------------------------------------------------
\* Properties of SingleMethodClass and WrongStdlibImport
\* ------------------------------------------------------------------------
\* the methods of a class whose names have no leading underscore
PublicMethods(node) ==
    SelectSeq(node.body, LAMBDA n : IsFunction(n) /\ ~startswith(n.name, "_"))

\* a class without bases, without keywords and without a special decorator
Unmarked(node) ==
    /\ node.bases = <<>>
    /\ node.keywords = <<>>
    /\ \A i \in DOMAIN node.decorator_list :
          get_decorator_name(node.decorator_list[i]) \notin SPECIAL_DECORATORS

\* the blocks of statements of a body: the body and the bodies nested in its
\* statements, each with the line of its first statement
RECURSIVE BlocksOf(_, _)
BlocksOf(body, first) ==
    {[stmts |-> body, first |-> first]}
    \cup UNION {BlocksOf(body[i].body, LineOf(body, i, first) + 1) :
                 i \in {j \in DOMAIN body : body[j].t \in {"If", "For"}}}

\* C28: UnreachableCode reports the statement that directly follows a return
\* or a raise in the same block, at any nesting depth inside the function.
C28_UnreachableAtAnyDepth ==
    /\ npc = "unreachable_code"
    /\ subject.t = "FunctionDef"
    => \A b \in BlocksOf(subject.body, 2) :
          \A i \in DOMAIN b.stmts :
              /\ b.stmts[i].t \in {"Return", "Raise"}
              /\ i < Len(b.stmts)
              => \E k \in DOMAIN node_issues :
                    /\ node_issues[k].pattern_id = "unreachable_code"
                    /\ node_issues[k].line = LineOf(b.stmts, i + 1, b.first)

\* C19: SingleMethodClass gives exactly one single_method_class issue for a
\* class with exactly one public method besides its constructor and without
\* interface or base-class markers or special decorators, and none for a
\* class with two or more public methods.
C19_SingleMethodClassRule ==
    (npc = "single_method_class" /\ subject.t = "ClassDef") =>
        /\ (Unmarked(subject) /\ Len(PublicMethods(subject)) = 1) =>
              /\ Len(node_issues) = 1
              /\ node_issues[1].pattern_id = "single_method_class"
        /\ Len(PublicMethods(subject)) >= 2 => node_issues = <<>>

\* the module an import statement names, where it names exactly one
ImportedModule ==
    IF subject.t = "Import" /\ Len(subject.names) = 1 THEN subject.names[1].name
    ELSE IF subject.t = "ImportFrom" THEN subject.module
    ELSE None

\* M.py or the package M/ lies in the directory of the importing file
HasSibling(module_name) ==
    \/ BaseOf(module_name) \in listing[1].files
    \/ BaseOf(module_name) \in listing[1].packages

\* C20: for `import M` or `from M import ...`, WrongStdlibImport gives an
\* issue exactly when M is not a standard-library module and neither M.py
\* nor a package M/ lies beside the importing file.
C20_UnresolvableImportRule ==
    (npc = "wrong_stdlib_import" /\ ImportedModule # None) =>
        Len(node_issues) =
            IF BaseOf(ImportedModule) \notin STDLIB_MODULES /\ ~HasSibling(ImportedModule)
            THEN 1 ELSE 0

Init == ScanInit /\ DeadIdle /\ DupIdle /\ PathIdle /\ NodeIdle /\ FingerprintIdle

Next == StartScan \/ SkipFile \/ ScanFile \/ Finish

Spec == Init /\ [][Next]_vars

InitDead == DeadInit /\ ScanIdle /\ DupIdle /\ PathIdle /\ NodeIdle /\ FingerprintIdle

NextDead == ExtractExports \/ VisitNext \/ Report

InitLines == LinesInit /\ DeadIdle /\ DupIdle /\ PathIdle /\ NodeIdle /\ FingerprintIdle

SpecLines == InitLines /\ [][Next]_vars

SpecDead == InitDead /\ [][NextDead]_vars

InitDup == DupInit /\ ScanIdle /\ DeadIdle /\ PathIdle /\ NodeIdle /\ FingerprintIdle

NextDup == AddFile \/ FindDuplicates

SpecDup == InitDup /\ [][NextDup]_vars

InitPath == PathInit /\ ScanIdle /\ DeadIdle /\ DupIdle /\ NodeIdle /\ FingerprintIdle

NextPath == MatchPattern \/ ShouldScan

SpecPath == InitPath /\ [][NextPath]_vars

InitNode == NodeInit /\ ScanIdle /\ DeadIdle /\ DupIdle /\ PathIdle /\ FingerprintIdle

NextNode ==
    \/ CheckSingleMethodClass
    \/ CheckWrongStdlibImport
    \/ CheckUnreachableCode
    \/ ValidatePackage

SpecNode == InitNode /\ [][NextNode]_vars

InitFingerprint ==
    FingerprintInit /\ ScanIdle /\ DeadIdle /\ DupIdle /\ PathIdle /\ NodeIdle

NextFingerprint == Fingerprint

SpecFingerprint == InitFingerprint /\ [][NextFingerprint]_vars
====
